---- MODULE Spec2Model ----
(***************************************************************************)
(* Order/customer backend: the sanitizers (sanitizeSearch,                 *)
(* sanitizeQueryParams, sanitizeAggregationFilters) and the order and      *)
(* customer controllers, as a state machine over the document store.       *)
(*                                                                         *)
(* Strings are sequences of one-character strings, so that startsWith and  *)
(* the character-by-character replacements of the code can be computed.    *)
(***************************************************************************)
EXTENDS Integers, Sequences, FiniteSets, TLC

VARIABLES
    htmlParser, \* which build of the markup parser the deployment runs
    input,      \* argument handed to a sanitizer (SpecSan)
    output,     \* what the sanitizer call produced (SpecSan)
    customers,  \* users collection: the ids of the stored user documents
    orderRefs,  \* users collection: the `orders` field of each user document
    orders,     \* orders collection: set of order documents
    nextNumber, \* orders collection: next orderNumber handed out by the store
    resp,       \* the last request a handler served, and its outcome
    prices,     \* products collection: the price of each product document
    pending     \* the request that is between two of its awaited store calls

vars == <<htmlParser, input, output, customers, orderRefs, orders, nextNumber, resp, prices, pending>>

--------------------------------------------------------------------------
(* Bounds *)

MaxStrLen == 2
MaxDepth == 2
MaxOrders == 2

--------------------------------------------------------------------------
(* Characters and strings *)

BS == "\\"
SENTINEL == "$"

\* the alphabet of the model: plain characters, regex metacharacters, a quote
Chars == {"a", "1", ".", "(", "$", "\\", "'"}

RECURSIVE StringsUpTo(_)
StringsUpTo(n) ==
    IF n = 0 THEN {<<>>}
    ELSE LET shorter == StringsUpTo(n - 1)
         IN  shorter \cup {Append(s, c) : s \in {t \in shorter : Len(t) = n - 1}, c \in Chars}

\* String.prototype.startsWith('$')
StartsWithSentinel(s) == Len(s) > 0 /\ s[1] = SENTINEL

--------------------------------------------------------------------------
(* sanitizeSearch *)

\* the character class of /[.*+?^${}()|[\]\\]/
RegexMeta == {".", "*", "+", "?", "^", "$", "{", "}", "(", ")", "|", "[", "]", "\\"}

\* s.replace(/<one of targets>/g, '\\' + match): a global replace that puts a
\* backslash in front of every occurrence
RECURSIVE PrefixBackslash(_, _)
PrefixBackslash(s, targets) ==
    IF s = <<>> THEN <<>>
    ELSE (IF Head(s) \in targets THEN <<BS, Head(s)>> ELSE <<Head(s)>>)
             \o PrefixBackslash(Tail(s), targets)

sanitizeSearch(inputStr) ==
    LET step1 == PrefixBackslash(inputStr, RegexMeta)   \* .replace(/[.*+?^${}()|[\]\\]/g, '\\$&')
        step2 == PrefixBackslash(step1, {BS})           \* .replace(/\\/g, '\\\\')
        step3 == PrefixBackslash(step2, {"'"})          \* .replace(/'/g, '\\\'')
        step4 == PrefixBackslash(step3, {"\""})         \* .replace(/"/g, '\\"')
    IN  step4

--------------------------------------------------------------------------
(* new RegExp(pattern, 'i'): the part of the pattern grammar the alphabet  *)
(* can spell.  A token matches one character ("lit", "any"), asserts the   *)
(* end of the text ("end"), or is the legacy octal escape \1 ("octal"),    *)
(* which stands for U+0001, a character no text of the model contains.     *)

Tok(kind, c) == [kind |-> kind, c |-> c]

RECURSIVE RegexParse(_)
RegexParse(p) ==
    IF p = <<>> THEN [ok |-> TRUE, toks |-> <<>>]
    ELSE IF Head(p) = BS
    THEN IF Len(p) = 1
         THEN [ok |-> FALSE, toks |-> <<>>]            \* SyntaxError: \ at end of pattern
         ELSE LET rest == RegexParse(SubSeq(p, 3, Len(p)))
                  tok  == IF p[2] = "1" THEN Tok("octal", p[2]) ELSE Tok("lit", p[2])
              IN  [ok |-> rest.ok, toks |-> <<tok>> \o rest.toks]
    ELSE IF Head(p) = "("
    THEN [ok |-> FALSE, toks |-> <<>>]                 \* SyntaxError: unterminated group
    ELSE LET rest == RegexParse(Tail(p))
             tok  == IF Head(p) = "." THEN Tok("any", Head(p))
                     ELSE IF Head(p) = "$" THEN Tok("end", Head(p))
                     ELSE Tok("lit", Head(p))
         IN  [ok |-> rest.ok, toks |-> <<tok>> \o rest.toks]

\* whether the tokens match the text starting at position i (1-based)
RECURSIVE MatchAt(_, _, _)
MatchAt(toks, text, i) ==
    IF toks = <<>> THEN TRUE
    ELSE LET t == Head(toks)
         IN  IF t.kind = "end" THEN i = Len(text) + 1 /\ MatchAt(Tail(toks), text, i)
             ELSE IF t.kind = "octal" THEN FALSE
             ELSE /\ i <= Len(text)
                  /\ (t.kind = "any" \/ text[i] = t.c)
                  /\ MatchAt(Tail(toks), text, i + 1)

\* RegExp.prototype.test: an unanchored match somewhere in the text
RegexTest(toks, text) == \E i \in 1..(Len(text) + 1) : MatchAt(toks, text, i)

--------------------------------------------------------------------------
(* JavaScript values: a string, a number, NaN, a Date, undefined, or an    *)
(* object, which is a mapping (a function) from keys to values.  Every     *)
(* value carries all four fields so that values of any two kinds compare.  *)

StrN(s)  == [kind |-> "str",   str |-> s,    num |-> 0, obj |-> <<>>]
NumN(n)  == [kind |-> "num",   str |-> <<>>, num |-> n, obj |-> <<>>]
DateN(t) == [kind |-> "date",  str |-> <<>>, num |-> t, obj |-> <<>>]
ObjN(m)  == [kind |-> "obj",   str |-> <<>>, num |-> 0, obj |-> m]
NaN      == [kind |-> "nan",   str |-> <<>>, num |-> 0, obj |-> <<>>]
Undefined == [kind |-> "undef", str |-> <<>>, num |-> 0, obj |-> <<>>]

\* typeof v === 'object' && v !== null
IsObject(v) == v.kind \in {"obj", "date"}

\* Object.entries(v): a Date has no own enumerable properties
Entries(v) == IF v.kind = "obj" THEN v.obj ELSE <<>>

\* ToBoolean
Truthy(v) ==
    CASE v.kind = "str" -> v.str # <<>>
      [] v.kind = "num" -> v.num # 0
      [] v.kind \in {"obj", "arr", "date"} -> TRUE
      [] OTHER -> FALSE

\* the outcome of a call: a returned value or a thrown error
Return(v) == [err |-> "none", val |-> v]
Throw(e)  == [err |-> e, val |-> Undefined]

--------------------------------------------------------------------------
(* sanitizeQueryParams *)

RECURSIVE sanitizeQueryParams(_)
sanitizeQueryParams(query) ==
    LET entry(key) ==
            LET value == query[key]
            IN  IF value.kind = "str"
                THEN IF StartsWithSentinel(value.str)
                     THEN Throw("BadRequest")
                     ELSE Return(StrN(sanitizeSearch(value.str)))
                ELSE IF IsObject(value)
                THEN LET sub == sanitizeQueryParams(Entries(value))
                     IN  IF sub.err # "none" THEN sub ELSE Return(ObjN(sub.val))
                ELSE Return(value)
    IN  IF \E key \in DOMAIN query : entry(key).err # "none"
        THEN Throw("BadRequest")
        ELSE [err |-> "none", val |-> [key \in DOMAIN query |-> entry(key).val]]

--------------------------------------------------------------------------
(* sanitizeAggregationFilters *)

KeyExpr == <<"$", "e", "x", "p", "r">>
KeyFunction == <<"$", "f", "u", "n", "c", "t", "i", "o", "n">>

\* mutant: nested objects are copied as they are instead of being sanitized
sanitizeAggregationFilters_Shallow(filters) ==
    IF ~Truthy(filters) \/ ~IsObject(filters) THEN Return(filters)
    ELSE
    LET m == Entries(filters)
        bad(key) == \/ StartsWithSentinel(key)
                    \/ m[key].kind = "str" /\ StartsWithSentinel(m[key].str)
    IN  IF \E key \in DOMAIN m : bad(key) THEN Throw("BadRequest")
        ELSE Return(ObjN(m))

RECURSIVE sanitizeAggregationFilters(_)
sanitizeAggregationFilters(filters) ==
    IF ~Truthy(filters) \/ ~IsObject(filters) THEN Return(filters)
    ELSE
    LET m == Entries(filters)
        entry(key) ==
            LET value == m[key]
            IN  IF StartsWithSentinel(key) THEN Throw("BadRequest")
                ELSE IF value.kind = "str"
                THEN IF StartsWithSentinel(value.str)
                     THEN Throw("BadRequest")
                     ELSE Return(value)
                ELSE IF IsObject(value)
                THEN sanitizeAggregationFilters(value)
                ELSE Return(value)
        sanitized == [key \in DOMAIN m |-> entry(key).val]
        has(key) == key \in DOMAIN m /\ Truthy(sanitized[key])
    IN  IF \E key \in DOMAIN m : entry(key).err # "none" THEN Throw("BadRequest")
        ELSE IF has(KeyExpr) THEN Throw("BadRequest")
        ELSE IF has(KeyFunction) THEN Throw("BadRequest")
        ELSE Return(ObjN(sanitized))

--------------------------------------------------------------------------
(* The sanitizers applied to bounded inputs (SpecSan) *)

KeyPlain == <<"a">>
SanKeys == {KeyPlain, KeyExpr}
SanLeaves == {StrN(<<"a", ".">>), StrN(<<"$", "a">>), NumN(0)}

\* the mappings over SanKeys nested at most d deep
RECURSIVE Mappings(_)
Mappings(d) ==
    IF d = 0 THEN {}
    ELSE LET values == SanLeaves \cup {ObjN(m) : m \in Mappings(d - 1)}
         IN  UNION {[K -> values] : K \in SUBSET SanKeys}

\* a function-invocation directive at the top and one level down
DirectiveInputs ==
    { [k \in {KeyFunction} |-> StrN(<<"a">>)],
      [k \in {KeyPlain} |-> ObjN([j \in {KeyFunction} |-> NumN(0)])] }

SanInputs ==
    {StrN(s) : s \in StringsUpTo(MaxStrLen)}
        \cup {ObjN(m) : m \in Mappings(MaxDepth) \cup DirectiveInputs}

NoOutput == [fn |-> "none", err |-> "none", val |-> Undefined]

CallSanitizeSearch ==
    /\ output.fn = "none"
    /\ input.kind = "str"
    /\ output' = [fn |-> "sanitizeSearch", err |-> "none",
                  val |-> StrN(sanitizeSearch(input.str))]
    /\ UNCHANGED <<htmlParser, input, customers, orderRefs, orders, nextNumber, resp, prices, pending>>

CallSanitizeQueryParams ==
    /\ output.fn = "none"
    /\ input.kind = "obj"
    /\ LET r == sanitizeQueryParams(input.obj)
       IN  output' = [fn |-> "sanitizeQueryParams", err |-> r.err,
                      val |-> IF r.err = "none" THEN ObjN(r.val) ELSE Undefined]
    /\ UNCHANGED <<htmlParser, input, customers, orderRefs, orders, nextNumber, resp, prices, pending>>

CallSanitizeAggregationFilters ==
    /\ output.fn = "none"
    /\ LET r == sanitizeAggregationFilters(input)
       IN  output' = [fn |-> "sanitizeAggregationFilters", err |-> r.err, val |-> r.val]
    /\ UNCHANGED <<htmlParser, input, customers, orderRefs, orders, nextNumber, resp, prices, pending>>

--------------------------------------------------------------------------
(* Number(), parseInt(), new Date(), Math.ceil(a / b), Array.slice *)

Digits == {"0", "1", "2", "3", "4", "5", "6", "7", "8", "9"}
DigitVal(c) ==
    CASE c = "0" -> 0 [] c = "1" -> 1 [] c = "2" -> 2 [] c = "3" -> 3 [] c = "4" -> 4
      [] c = "5" -> 5 [] c = "6" -> 6 [] c = "7" -> 7 [] c = "8" -> 8 [] c = "9" -> 9

RECURSIVE DecimalValue(_)
DecimalValue(s) ==
    IF s = <<>> THEN 0
    ELSE 10 * DecimalValue(SubSeq(s, 1, Len(s) - 1)) + DigitVal(s[Len(s)])

\* Number(s) for the strings the handlers hand to it: the empty string is 0, a
\* run of digits is its value, and a string holding any other character of
\* the alphabet is NaN (a "." reaches Number() only behind a backslash)
NumberOf(v) ==
    IF v.kind = "num" THEN v
    ELSE IF v.kind # "str" THEN NaN
    ELSE IF \A i \in 1..Len(v.str) : v.str[i] \in Digits THEN NumN(DecimalValue(v.str))
    ELSE NaN

\* the longest prefix of s made of digits
RECURSIVE DigitPrefix(_)
DigitPrefix(s) ==
    IF s = <<>> \/ Head(s) \notin Digits THEN <<>>
    ELSE <<Head(s)>> \o DigitPrefix(Tail(s))

\* parseInt(v): an optional sign and the leading digits; NaN when there are none
ParseInt(v) ==
    IF v.kind # "str" THEN NaN
    ELSE LET neg  == v.str # <<>> /\ Head(v.str) = "-"
             body == IF neg THEN Tail(v.str) ELSE v.str
             ds   == DigitPrefix(body)
         IN  IF ds = <<>> THEN NaN
             ELSE NumN(IF neg THEN 0 - DecimalValue(ds) ELSE DecimalValue(ds))

\* a || b on numbers
OrElse(v, dflt) == IF Truthy(v) THEN v.num ELSE dflt

Max(a, b) == IF a >= b THEN a ELSE b
Min(a, b) == IF a <= b THEN a ELSE b

\* Math.ceil(a / b) for a >= 0 and b # 0
CeilDiv(a, b) ==
    IF b > 0 THEN (a + b - 1) \div b
    ELSE 0 - (a \div (0 - b))

\* Array.prototype.slice(start, end): a negative index counts from the end
SliceIndex(i, len) == IF i < 0 THEN Max(len + i, 0) ELSE Min(i, len)
Slice(seq, start, end) ==
    LET from == SliceIndex(start, Len(seq))
        to   == SliceIndex(end, Len(seq))
    IN  IF from >= to THEN <<>> ELSE SubSeq(seq, from + 1, to)

\* Times are milliseconds since the midnight (UTC) that starts 2024-01-01;
\* the server runs in UTC, so local time is UTC.
DayMs == 24 * 60 * 60 * 1000

\* the date-only ISO string of day d of January 2024 (d in 1..9)
DayChar(d) == CHOOSE c \in Digits : DigitVal(c) = d
DateOnly(d) == <<"2", "0", "2", "4", "-", "0", "1", "-", "0", DayChar(d)>>

\* new Date(s): a date-only string is the UTC midnight starting that day;
\* anything else the model spells is an Invalid Date
NewDate(s) ==
    IF \E d \in 1..9 : s = DateOnly(d)
    THEN DateN((DigitVal(s[10]) - 1) * DayMs)
    ELSE NaN

\* date.setHours(23, 59, 59, 999)
SetEndOfDay(date) ==
    IF date.kind # "date" THEN date
    ELSE DateN((date.num \div DayMs) * DayMs + (23 * 60 * 60 + 59 * 60 + 59) * 1000 + 999)

--------------------------------------------------------------------------
(* cleanHtml: sanitize-html with allowedTags p and a, allowedAttributes     *)
(* a: href, and a transform of a that adds rel                              *)

HtmlLetters ==
    {"a", "b", "c", "d", "e", "f", "g", "h", "i", "j", "k", "l", "m", "n", "o", "p", "q",
     "r", "s", "t", "u", "v", "w", "x", "y", "z", "O"}

\* tag names are read in lower case
LowerChar(c) == IF c = "O" THEN "o" ELSE c
LowerCase(s) == [i \in 1..Len(s) |-> LowerChar(s[i])]

\* the first position from i on where one of the characters cs stands in s,
\* 0 when there is none
RECURSIVE FirstOf(_, _, _)
FirstOf(s, cs, i) ==
    IF i > Len(s) THEN 0 ELSE IF s[i] \in cs THEN i ELSE FirstOf(s, cs, i + 1)

IndexFrom(s, c, i) == FirstOf(s, {c}, i)

\* the first position from i on where the run t stands in s, 0 when there is none
RECURSIVE IndexOfRun(_, _, _)
IndexOfRun(s, t, i) ==
    IF i + Len(t) - 1 > Len(s) THEN 0
    ELSE IF SubSeq(s, i, i + Len(t) - 1) = t THEN i
    ELSE IndexOfRun(s, t, i + 1)

\* s has the run t at position i
HasRunAt(s, t, i) == i + Len(t) - 1 <= Len(s) /\ SubSeq(s, i, i + Len(t) - 1) = t

\* the part of s before position p, all of s when p is 0
UpTo(s, p) == IF p = 0 THEN s ELSE SubSeq(s, 1, p - 1)
\* the position p, or the position after the end of s when p is 0
OrEnd(p, s) == IF p = 0 THEN Len(s) + 1 ELSE p

\* the named entities the escaping of the library writes, and their characters
\* (the parser also reads them without the closing semicolon)
HtmlEntities ==
    { [name |-> <<"&", "a", "m", "p", ";">>, c |-> "&"], [name |-> <<"&", "a", "m", "p">>, c |-> "&"],
      [name |-> <<"&", "l", "t", ";">>, c |-> "<"], [name |-> <<"&", "l", "t">>, c |-> "<"],
      [name |-> <<"&", "g", "t", ";">>, c |-> ">"], [name |-> <<"&", "g", "t">>, c |-> ">"],
      [name |-> <<"&", "q", "u", "o", "t", ";">>, c |-> "\""],
      [name |-> <<"&", "q", "u", "o", "t">>, c |-> "\""] }

HasEntityAt(s, i) == \E e \in HtmlEntities : HasRunAt(s, e.name, i)

\* the longest entity that stands at position i of s
EntityAt(s, i) ==
    CHOOSE e \in HtmlEntities :
        /\ HasRunAt(s, e.name, i)
        /\ \A x \in HtmlEntities : HasRunAt(s, x.name, i) => Len(x.name) <= Len(e.name)

\* escapeHtml(s, quote)
EscapeChar(c, quote) ==
    IF c = "&" THEN <<"&", "a", "m", "p", ";">>
    ELSE IF c = "<" THEN <<"&", "l", "t", ";">>
    ELSE IF c = ">" THEN <<"&", "g", "t", ";">>
    ELSE IF c = "\"" /\ quote THEN <<"&", "q", "u", "o", "t", ";">>
    ELSE <<c>>

RECURSIVE EscapeHtml(_, _)
EscapeHtml(s, quote) ==
    IF s = <<>> THEN <<>> ELSE EscapeChar(Head(s), quote) \o EscapeHtml(Tail(s), quote)

\* the text of s with its entities decoded (decodeEntities of the parser)
RECURSIVE DecodeEntities(_)
DecodeFrom(s, e) == <<e.c>> \o DecodeEntities(SubSeq(s, Len(e.name) + 1, Len(s)))
DecodeEntities(s) ==
    IF s = <<>> THEN <<>>
    ELSE IF HasEntityAt(s, 1) THEN DecodeFrom(s, EntityAt(s, 1))
    ELSE <<Head(s)>> \o DecodeEntities(Tail(s))

\* the attributes written in the rest of an opening tag: name="value" pairs
\* separated by spaces; a name without a value has the empty value
RECURSIVE ParseAttribs(_, _)
AttribValued(r, i, nameEnd, from, last) ==
    <<[name |-> SubSeq(r, i, nameEnd - 1), value |-> DecodeEntities(SubSeq(r, from, last - 1))]>>
        \o ParseAttribs(r, last + 1)
AttribNamed(r, i, nameEnd) ==
    IF nameEnd <= Len(r) /\ r[nameEnd] = "=" /\ nameEnd + 1 <= Len(r) /\ r[nameEnd + 1] = "\""
    THEN AttribValued(r, i, nameEnd, nameEnd + 2, OrEnd(FirstOf(r, {"\""}, nameEnd + 2), r))
    ELSE IF nameEnd <= Len(r) /\ r[nameEnd] = "="
    THEN AttribValued(r, i, nameEnd, nameEnd + 1, OrEnd(FirstOf(r, {" "}, nameEnd + 1), r))
    ELSE <<[name |-> SubSeq(r, i, nameEnd - 1), value |-> <<>>]>> \o ParseAttribs(r, nameEnd)
ParseAttribs(r, i) ==
    IF i > Len(r) THEN <<>>
    ELSE IF r[i] \in {" ", "/"} THEN ParseAttribs(r, i + 1)
    ELSE AttribNamed(r, i, OrEnd(FirstOf(r, {" ", "=", "/"}, i), r))

\* the name of a tag: the characters up to the first space, '/' or the end
TagName(inner) == LowerCase(UpTo(inner, FirstOf(inner, {" ", "/"}, 1)))

TextTok(c) == [kind |-> "text", name |-> <<c>>, attribs |-> <<>>]
OpenTokNamed(inner, name) ==
    [kind |-> "open", name |-> name, attribs |-> ParseAttribs(inner, Len(name) + 1)]
OpenTok(inner) == OpenTokNamed(inner, TagName(inner))
CloseTok(name) == [kind |-> "close", name |-> name, attribs |-> <<>>]

\* elements whose content the tokenizer reads as raw text up to their end tag
RawTextTags == {<<"s", "c", "r", "i", "p", "t">>, <<"s", "t", "y", "l", "e">>}

\* the tokenizer of the parser: text characters (entities decoded), opening
\* tags and closing tags; a tag that the input ends in is ignored, a '<' that
\* begins no tag is text, '</' followed by no letter begins a comment
RECURSIVE HtmlTokens(_, _)
\* the end tag of a raw text element begins at k and ends at close
RawTextClosed(s, tok, close) ==
    IF close = 0 THEN <<tok>> ELSE <<tok, CloseTok(tok.name)>> \o HtmlTokens(s, close + 1)
RawTextFrom(s, tok, k) ==
    IF k = 0 THEN <<tok>> ELSE RawTextClosed(s, tok, IndexFrom(s, ">", k + 2 + Len(tok.name)))
\* the opening tag tok ends at j
OpenTagRead(s, tok, j) ==
    IF tok.name \in RawTextTags
    THEN RawTextFrom(s, tok, IndexOfRun(s, <<"<", "/">> \o tok.name, j + 1))
    ELSE <<tok>> \o HtmlTokens(s, j + 1)
\* '<' and a letter stand at i, and the first '>' after them at j
OpenTagAt(s, i, j) == IF j = 0 THEN <<>> ELSE OpenTagRead(s, OpenTok(SubSeq(s, i + 1, j - 1)), j)
\* '</' stands at i, and the first '>' after it at j
CloseTagAt(s, i, j) ==
    IF j = 0 THEN <<>>
    ELSE IF s[i + 2] \in HtmlLetters
    THEN <<CloseTok(TagName(UpTo(SubSeq(s, i + 2, j - 1), FirstOf(SubSeq(s, i + 2, j - 1), {" "}, 1))))>>
             \o HtmlTokens(s, j + 1)
    ELSE HtmlTokens(s, j + 1)
EntityRead(s, i, e) == <<TextTok(e.c)>> \o HtmlTokens(s, i + Len(e.name))
HtmlTokens(s, i) ==
    IF i > Len(s) THEN <<>>
    ELSE IF s[i] = "<" /\ i + 1 <= Len(s) /\ s[i + 1] \in HtmlLetters
    THEN OpenTagAt(s, i, IndexFrom(s, ">", i + 1))
    ELSE IF HasRunAt(s, <<"<", "/">>, i) /\ i + 2 <= Len(s)
    THEN CloseTagAt(s, i, IndexFrom(s, ">", i + 2))
    ELSE IF HasEntityAt(s, i) THEN EntityRead(s, i, EntityAt(s, i))
    ELSE <<TextTok(s[i])>> \o HtmlTokens(s, i + 1)

AllowedTags == {<<"p">>, <<"a">>}
NonTextTags ==
    {<<"s", "c", "r", "i", "p", "t">>, <<"s", "t", "y", "l", "e">>,
     <<"t", "e", "x", "t", "a", "r", "e", "a">>, <<"o", "p", "t", "i", "o", "n">>}
VoidTags == {<<"b", "r">>, <<"h", "r">>, <<"i", "m", "g">>}
\* the opening tags that close an open p element (those the inputs can hold)
ClosesParagraph == {<<"p">>, <<"d", "i", "v">>}
AllowedSchemes ==
    {<<"h", "t", "t", "p">>, <<"h", "t", "t", "p", "s">>, <<"f", "t", "p">>,
     <<"m", "a", "i", "l", "t", "o">>, <<"t", "e", "l">>}

\* naughtyHref: a value with a scheme is kept only for the allowed schemes
NaughtyScheme(scheme) ==
    (\A i \in 1..Len(scheme) : scheme[i] \in HtmlLetters) /\ scheme \notin AllowedSchemes
SchemeUpTo(value, colon) == colon > 1 /\ NaughtyScheme(LowerCase(SubSeq(value, 1, colon - 1)))
NaughtyHref(value) == SchemeUpTo(value, IndexFrom(value, ":", 1))

RelValue == <<"n", "o", "o", "p", "e", "n", "e", "r", " ", "n", "o", "r", "e", "f", "e", "r", "r", "e", "r", " ", "n", "o", "f", "o", "l", "l", "o", "w">>

\* transformTags: the transform of a adds rel to the attributes of the tag
TransformAnchor(attribs) ==
    SelectSeq(attribs, LAMBDA at : at.name # <<"r", "e", "l">>)
        \o <<[name |-> <<"r", "e", "l">>, value |-> RelValue]>>

\* the attributes of an opening tag as written: those of allowedAttributes
\* (href of a, the first of its name), without an empty or a naughty value
WrittenHref(hrefs) ==
    IF hrefs # <<>> /\ hrefs[1].value # <<>> /\ ~NaughtyHref(hrefs[1].value)
    THEN <<" ", "h", "r", "e", "f", "=", "\"">> \o EscapeHtml(hrefs[1].value, TRUE) \o <<"\"">>
    ELSE <<>>
WrittenAttribs(name, attribs) ==
    IF name = <<"a">>
    THEN WrittenHref(SelectSeq(TransformAnchor(attribs), LAMBDA at : at.name = <<"h", "r", "e", "f">>))
    ELSE <<>>

\* what closing the frames of stack from the top down to position k writes
RECURSIVE CloseFrames(_, _)
CloseFrames(stack, k) ==
    IF Len(stack) < k THEN <<>>
    ELSE (IF stack[Len(stack)].mode = "emit"
          THEN <<"<", "/">> \o stack[Len(stack)].name \o <<">">> ELSE <<>>)
             \o CloseFrames(SubSeq(stack, 1, Len(stack) - 1), k)

\* the position of the last open frame of the name, 0 when there is none
LastOpen(stack, name) ==
    LET at == {k \in 1..Len(stack) : stack[k].name = name}
    IN  IF at = {} THEN 0 ELSE CHOOSE k \in at : \A j \in at : j <= k

\* text is skipped inside a disallowed element of nonTextTags
SkipText(stack) == \E k \in 1..Len(stack) : stack[k].mode = "root"

\* how the frame of an opening tag is kept: written ("emit"), dropped with its
\* text kept ("skip"), dropped with its text ("root"), or inside such a one
FrameMode(stack, name) ==
    IF SkipText(stack) THEN "inside"
    ELSE IF name \in AllowedTags THEN "emit"
    ELSE IF name \in NonTextTags THEN "root"
    ELSE "skip"

\* the handlers of the sanitizer over the tokens: ontext, onopentag,
\* onclosetag, and the closing of what is still open at the end
RECURSIVE Serialize(_, _, _)
OnText(toks, i, stack, t) ==
    (IF SkipText(stack) THEN <<>> ELSE EscapeHtml(t.name, FALSE)) \o Serialize(toks, i + 1, stack)
OpenedAs(toks, i, stack, t, mode) ==
    (IF mode = "emit" THEN <<"<">> \o t.name \o WrittenAttribs(t.name, t.attribs) \o <<">">> ELSE <<>>)
        \o Serialize(toks, i + 1, Append(stack, [name |-> t.name, mode |-> mode]))
Opened(toks, i, stack, t) ==
    IF t.name \in VoidTags THEN Serialize(toks, i + 1, stack)
    ELSE OpenedAs(toks, i, stack, t, FrameMode(stack, t.name))
OnOpenTag(toks, i, stack, t) ==
    IF stack # <<>> /\ stack[Len(stack)].name = <<"p">> /\ t.name \in ClosesParagraph
    THEN CloseFrames(stack, Len(stack)) \o Opened(toks, i, SubSeq(stack, 1, Len(stack) - 1), t)
    ELSE Opened(toks, i, stack, t)
ClosedAt(toks, i, stack, t, k) ==
    IF k > 0 THEN CloseFrames(stack, k) \o Serialize(toks, i + 1, SubSeq(stack, 1, k - 1))
    ELSE IF t.name = <<"p">> /\ ~SkipText(stack)
    THEN <<"<", "p", ">", "<", "/", "p", ">">> \o Serialize(toks, i + 1, stack)
    ELSE Serialize(toks, i + 1, stack)
OnCloseTag(toks, i, stack, t) == ClosedAt(toks, i, stack, t, LastOpen(stack, t.name))
Serialize(toks, i, stack) ==
    IF i > Len(toks) THEN CloseFrames(stack, 1)
    ELSE IF toks[i].kind = "text" THEN OnText(toks, i, stack, toks[i])
    ELSE IF toks[i].kind = "open" THEN OnOpenTag(toks, i, stack, toks[i])
    ELSE OnCloseTag(toks, i, stack, toks[i])

\* every character of the text as a text event, no entity decoded
UndecodedText(checkedText) == [i \in 1..Len(checkedText) |-> TextTok(checkedText[i])]

\* cleanHtml that reads its whole input as text and decodes no entity
cleanHtml_NoDecode(checkedText) ==
    Serialize(UndecodedText(checkedText), 1, <<>>)

\* cleanHtml(checkedText) for a string
cleanHtml(checkedText) ==
    Serialize(HtmlTokens(checkedText, 1), 1, <<>>)

\* the two behaviours of the parser of the library on a chunk that is not a
\* string: "concat" appends the chunk to a string buffer (buffer += chunk),
\* "index" keeps the chunk as the buffer and reads it by charCodeAt
ParserBuilds == {"concat", "index"}

\* Number.prototype.toString() of an integer
RECURSIVE NumToStr(_)
NumToStr(n) ==
    IF n < 0 THEN <<"-">> \o NumToStr(0 - n)
    ELSE IF n < 10 THEN <<CHOOSE c \in Digits : DigitVal(c) = n>>
    ELSE NumToStr(n \div 10) \o NumToStr(n % 10)

\* Array.prototype.join(',')
RECURSIVE Join(_)
Join(items) ==
    IF items = <<>> THEN <<>>
    ELSE IF Len(items) = 1 THEN items[1]
    ELSE items[1] \o <<",">> \o Join(Tail(items))

ArrN(items) == [kind |-> "arr", str |-> <<>>, num |-> 0, obj |-> items]
ObjectObject == <<"[", "o", "b", "j", "e", "c", "t", " ", "O", "b", "j", "e", "c", "t", "]">>

Cleaned(s) == [err |-> "none", val |-> s]

\* String(object) is the same text for every object; cleaned, it is
ObjectObjectCleaned == cleanHtml(ObjectObject)

\* what the parser reads of an array when it is given it as its chunk
\* (TypeError: charCodeAt is no function of an array)
ArrayChunk(items) ==
    IF htmlParser = "concat" THEN Cleaned(Join(items))
    ELSE IF items = <<>> THEN Cleaned(<<>>)
    ELSE [err |-> "TypeError", val |-> <<>>]

CleanChunk(chunk) == IF chunk.err # "none" THEN chunk ELSE Cleaned(cleanHtml(chunk.val))

\* cleanHtml(checkedText) for any value: null and undefined give '', a
\* number is written out, and any other value reaches the parser as it is
cleanHtmlValue(v) ==
    CASE v.kind = "undef" -> Cleaned(<<>>)
      [] v.kind = "str" -> CleanChunk(Cleaned(v.str))
      [] v.kind = "num" -> CleanChunk(Cleaned(NumToStr(v.num)))      \* html.toString()
      [] v.kind = "arr" -> CleanChunk(ArrayChunk(v.obj))
      [] OTHER -> Cleaned(IF htmlParser = "concat" THEN ObjectObjectCleaned ELSE <<>>)

\* order[field], undefined when the record has no such field
TextField(record, field) == IF field \in DOMAIN record THEN StrN(record[field]) ELSE Undefined

OrderTextFields == {"deliveryAddress", "comment", "email", "phone"}

\* deliveryAddress, email and phone are cleaned; comment is cleanHtml of
\* orderObject itself; `|| ''` leaves a string as it is
sanitizeOrder(order) ==
    [field \in (DOMAIN order) \cup OrderTextFields |->
        IF field \in OrderTextFields
        THEN cleanHtmlValue(IF field = "comment" THEN ObjN(order) ELSE TextField(order, field)).val
        ELSE order[field]]

\* orders.map(sanitizeOrder)
SanitizedOrders(docs) == [i \in 1..Len(docs) |-> sanitizeOrder(docs[i])]

\* the record as the response carries it: name and email are cleaned, phone
\* is cleaned when it is truthy and undefined, which is not written, otherwise
sanitizeUser(user) ==
    LET hasPhone == Truthy(TextField(user, "phone"))
    IN  [field \in ((DOMAIN user) \cup {"name", "email"}) \ (IF hasPhone THEN {} ELSE {"phone"}) |->
            IF field \in {"name", "email", "phone"}
            THEN cleanHtmlValue(TextField(user, field)).val
            ELSE user[field]]

--------------------------------------------------------------------------
(* The markup and output sanitizers applied to bounded inputs (SpecHtml) *)

MaxHtmlLen == 3

\* the characters markup is spelt with, and one letter that spells no tag
HtmlChars == {"<", ">", "/", "&", "p", "x"}

RECURSIVE HtmlStringsUpTo(_)
HtmlStringsUpTo(n) ==
    IF n = 0 THEN {<<>>}
    ELSE LET shorter == HtmlStringsUpTo(n - 1)
         IN  shorter \cup {Append(s, c) : s \in {t \in shorter : Len(t) = n - 1}, c \in HtmlChars}

ScriptThenText == <<"<", "s", "c", "r", "i", "p", "t", ">", "x", "<", "/", "s", "c", "r", "i", "p", "t", ">", "1">>
AnchorWithRel == <<"<", "a", " ", "h", "r", "e", "f", "=", "\"", "x", "\"", " ", "r", "e", "l", "=", "\"", "x", "\"", ">", "x", "<", "/", "a", ">">>
AnchorWithScript == <<"<", "a", " ", "h", "r", "e", "f", "=", "\"", "j", "s", ":", "x", "\"", ">", "x">>
BoldInParagraph == <<"<", "p", ">", "<", "b", ">", "x", "<", "/", "b", ">", "<", "p", ">">>
EscapedTag == <<"&", "l", "t", ";", "p", "&", "g", "t", ";">>
EscapedAmp == <<"&", "a", "m", "p", ";", "l", "t", ";">>

HtmlTexts ==
    HtmlStringsUpTo(MaxHtmlLen)
        \cup {ScriptThenText, AnchorWithRel, AnchorWithScript, BoldInParagraph, EscapedTag, EscapedAmp}

\* the values of a text field of a stored record
FieldTexts == {<<>>, <<"a">>, <<"<", "b", ">", "a">>}

\* the records over a set of text fields: each field absent or one of FieldTexts
RecordsOver(fields) == UNION {[present -> FieldTexts] : present \in SUBSET fields}

OrderInputs == {r @@ [orderNumber |-> 1] : r \in RecordsOver(OrderTextFields)}
UserInputs == {r @@ [id |-> "u1"] : r \in RecordsOver({"name", "email", "phone"})}

HtmlInputs ==
    {StrN(s) : s \in HtmlTexts}
        \cup {Undefined, NumN(12), ObjN(<<>>), ArrN(<<>>), ArrN(<<<<"p", "1">>, <<"p", "2">>>>)}
        \cup {[kind |-> "order", str |-> <<>>, num |-> 0, obj |-> o] : o \in OrderInputs}
        \cup {[kind |-> "user", str |-> <<>>, num |-> 0, obj |-> u] : u \in UserInputs}

CallCleanHtml ==
    /\ output.fn = "none"
    /\ input.kind \notin {"order", "user"}
    /\ LET r == cleanHtmlValue(input)
       IN  output' = [fn |-> "cleanHtml", err |-> r.err, val |-> StrN(r.val)]
    /\ UNCHANGED <<htmlParser, input, customers, orderRefs, orders, nextNumber, resp, prices, pending>>

CallSanitizeOrder ==
    /\ output.fn = "none"
    /\ input.kind = "order"
    /\ output' = [fn |-> "sanitizeOrder", err |-> "none", val |-> ObjN(sanitizeOrder(input.obj))]
    /\ UNCHANGED <<htmlParser, input, customers, orderRefs, orders, nextNumber, resp, prices, pending>>

CallSanitizeUser ==
    /\ output.fn = "none"
    /\ input.kind = "user"
    /\ output' = [fn |-> "sanitizeUser", err |-> "none", val |-> ObjN(sanitizeUser(input.obj))]
    /\ UNCHANGED <<htmlParser, input, customers, orderRefs, orders, nextNumber, resp, prices, pending>>

--------------------------------------------------------------------------
(* The document store *)

AllUsers == {"u1", "u2", "adm"}

\* user.roles.includes(Role.Admin)
IsAdmin(user) == user = "adm"

\* products collection (read-only for these controllers)
ProductIds == {"p1", "p2"}
productTitle(p) == IF p = "p1" THEN <<"a">> ELSE <<".">>
productPrice(p) == IF p = "p1" THEN 1 ELSE 2

RECURSIVE BasketTotal(_)
BasketTotal(items) ==
    IF items = <<>> THEN 0 ELSE productPrice(Head(items)) + BasketTotal(Tail(items))

\* the order documents a store may hold under orderNumber n
Noon == DayMs \div 2
LateEvening == DayMs - 500          \* 23:59:59.500 of 2024-01-01
OrderDoc(n, c, ps, t) ==
    [orderNumber |-> n, customer |-> c, products |-> ps, totalAmount |-> BasketTotal(ps),
     status |-> "new", createdAt |-> t, deliveryAddress |-> <<"a">>]
OrderDocs(n) ==
    { OrderDoc(n, "u1", <<"p1">>, Noon), OrderDoc(n, "u1", <<"p1", "p2">>, LateEvening),
      OrderDoc(n, "u2", <<"p1">>, LateEvening),
      [OrderDoc(n, "u2", <<"p2">>, Noon) EXCEPT !.status = "completed"] }

\* the contents of the orders collection: at most one document per number
OrderStores ==
    LET all == UNION {OrderDocs(n) : n \in 1..MaxOrders}
    IN  UNION { { {f[n] : n \in N} : f \in {g \in [N -> all] : \A n \in N : g[n].orderNumber = n} } :
                N \in SUBSET (1..MaxOrders) }

\* a set of numbers in ascending order
RECURSIVE Ascending(_)
Ascending(ns) ==
    IF ns = {} THEN <<>>
    ELSE LET least == CHOOSE n \in ns : \A m \in ns : n <= m
         IN  <<least>> \o Ascending(ns \ {least})

\* the documents of the collection in natural (insertion) order
NaturalOrder(docs) ==
    LET ns == Ascending({d.orderNumber : d \in docs})
    IN  [i \in 1..Len(ns) |-> CHOOSE d \in docs : d.orderNumber = ns[i]]

\* Model.countDocuments / find with an equality on customer
OrdersOf(docs, user) == SelectSeq(NaturalOrder(docs), LAMBDA d : d.customer = user)

\* query.skip(n).limit(m) as the store evaluates them: a negative skip is
\* rejected, a negative limit is taken as its absolute value
FindSkipLimit(seq, skip, limit) ==
    IF skip < 0 THEN Throw("MongoServerError")
    ELSE Return(SubSeq(seq, skip + 1, Min(Len(seq), skip + (IF limit < 0 THEN 0 - limit ELSE limit))))

--------------------------------------------------------------------------
(* Requests and responses *)

K_page == <<"p", "a", "g", "e">>
K_limit == <<"l", "i", "m", "i", "t">>
K_search == <<"s", "e", "a", "r", "c", "h">>
K_status == <<"s", "t", "a", "t", "u", "s">>
K_totalAmountFrom == <<"t", "o", "t", "a", "l", "A", "m", "o", "u", "n", "t", "F", "r", "o", "m">>
K_totalAmountTo == <<"t", "o", "t", "a", "l", "A", "m", "o", "u", "n", "t", "T", "o">>
K_orderDateFrom == <<"o", "r", "d", "e", "r", "D", "a", "t", "e", "F", "r", "o", "m">>
K_orderDateTo == <<"o", "r", "d", "e", "r", "D", "a", "t", "e", "T", "o">>
K_sortOrder == <<"s", "o", "r", "t", "O", "r", "d", "e", "r">>
K_totalAmount == <<"t", "o", "t", "a", "l", "A", "m", "o", "u", "n", "t">>
K_createdAt == <<"c", "r", "e", "a", "t", "e", "d", "A", "t">>
K_gte == <<"$", "g", "t", "e">>
K_lte == <<"$", "l", "t", "e">>

\* obj[key], undefined when the key is absent
Get(m, key) == IF key \in DOMAIN m THEN m[key] ELSE Undefined

\* { ...a, ...b }
Spread(a, b) == [key \in (DOMAIN a) \cup (DOMAIN b) |-> IF key \in DOMAIN b THEN b[key] ELSE a[key]]

\* { [key]: value }
One(key, value) == [k \in {key} |-> value]

NoPagination == [total |-> 0, totalPages |-> 0, currentPage |-> 0, pageSize |-> 0]

\* what a handler did with a request: res.status(200).json(...) or next(error),
\* together with the locals `limit` and `filters` it computed on the way
Outcome(status, error, message, docs, pagination, limit, filters) ==
    [status |-> status, error |-> error, message |-> message, docs |-> docs,
     pagination |-> pagination, limit |-> limit, filters |-> filters]

\* next(new XError(message))
Fail(error, message) == Outcome("error", error, message, <<>>, NoPagination, 0, Undefined)

\* res.status(200).json({ orders, pagination: {...} })
Page(docs, total, totalPages, page, limit, filters) ==
    Outcome("ok", "none", "none", docs,
            [total |-> total, totalPages |-> totalPages, currentPage |-> page, pageSize |-> limit],
            limit, filters)

\* res.status(200).json(doc)
Json(doc) == Outcome("ok", "none", "none", <<doc>>, NoPagination, 0, Undefined)

\* Math.max(1, parseInt(req.query.page) || 1)
PageOf(query) == Max(1, OrElse(ParseInt(Get(query, K_page)), 1))

MaxLimit == 10
\* Math.min(10, parseInt(req.query.limit) || 10)
LimitOf(query) == Min(MaxLimit, OrElse(ParseInt(Get(query, K_limit)), MaxLimit))

--------------------------------------------------------------------------
(* GET /orders *)

\* error messages (the source's texts are Russian)
MsgInvalidRequest == "invalid request"                \* 'Невалидный запрос'
MsgOrderAbsent == "no order with the given id"        \* 'Заказ по заданному id отсутствует в базе'
MsgUserAbsent == "no user with the given id"          \* 'Пользователь по заданному id отсутствует в базе'

\* Product.find({ title: searchRegex }) mapped to the ids
ProductsMatching(searchRegex) == {p \in ProductIds : RegexTest(searchRegex.toks, productTitle(p))}

\* the predicate of userOrders.filter(...) on the non-admin search path
MatchesSearch(order, productIds, searchNumber) ==
    LET matchesProduct == \E i \in 1..Len(order.products) : order.products[i] \in productIds
        matchesOrderNumber == searchNumber.kind # "nan" /\ order.orderNumber = searchNumber.num
    IN  matchesProduct \/ matchesOrderNumber

ValidStatuses == {<<"n", "e", "w">>, <<"c", "o", "m", "p", "l", "e", "t", "e", "d">>,
                  <<"c", "a", "n", "c", "e", "l", "l", "e", "d">>,
                  <<"d", "e", "l", "i", "v", "e", "r", "i", "n", "g">>}

\* the name a status is stored under in the order documents of the model
StatusName(s) ==
    IF s = <<"n", "e", "w">> THEN "new"
    ELSE IF s = <<"c", "o", "m", "p", "l", "e", "t", "e", "d">> THEN "completed"
    ELSE IF s = <<"c", "a", "n", "c", "e", "l", "l", "e", "d">> THEN "cancelled"
    ELSE IF s = <<"d", "e", "l", "i", "v", "e", "r", "i", "n", "g">> THEN "delivering"
    ELSE "other"

\* a bound of a range filter applied to a field value
SatisfiesRange(value, range) ==
    /\ K_gte \in DOMAIN range.obj =>
          range.obj[K_gte].kind \in {"num", "date"} /\ value >= range.obj[K_gte].num
    /\ K_lte \in DOMAIN range.obj =>
          range.obj[K_lte].kind \in {"num", "date"} /\ value <= range.obj[K_lte].num

\* whether an order document matches a filter expression of the Filter Builder
MatchesFilters(order, filters) ==
    /\ K_status \in DOMAIN filters => order.status = StatusName(filters[K_status].str)
    /\ K_totalAmount \in DOMAIN filters => SatisfiesRange(order.totalAmount, filters[K_totalAmount])
    /\ K_createdAt \in DOMAIN filters => SatisfiesRange(order.createdAt, filters[K_createdAt])

\* the non-admin branch of getOrders
getOrdersNonAdmin(user, query, searchTerm, searchRegex, searchNumber, docs) ==
    LET page == PageOf(query)
        limit == LimitOf(query)
        userFilters == One(<<"c", "u", "s", "t", "o", "m", "e", "r">>, StrN(<<user>>))
        userOrders == OrdersOf(docs, user)
    IN  IF Truthy(searchTerm) /\ searchTerm.kind = "str"
        THEN LET productIds == ProductsMatching(searchRegex)
                 filteredOrders == SelectSeq(userOrders,
                                       LAMBDA o : MatchesSearch(o, productIds, searchNumber))
                 totalOrders == Len(filteredOrders)
                 totalPages == CeilDiv(totalOrders, limit)
                 paginatedOrders == Slice(filteredOrders, (page - 1) * limit, page * limit)
             IN  Page(SanitizedOrders(paginatedOrders),
                      totalOrders, totalPages, page, limit, ObjN(userFilters))
        ELSE LET found == FindSkipLimit(userOrders, (page - 1) * limit, limit)
                 totalOrders == Len(userOrders)
                 totalPages == CeilDiv(totalOrders, limit)
             IN  IF found.err # "none" THEN Fail(found.err, "none")
                 ELSE Page(SanitizedOrders(found.val), totalOrders, totalPages, page, limit,
                           ObjN(userFilters))

\* { ...filters[field], [op]: bound }
WithBound(filters, field, op, bound) ==
    LET old == IF field \in DOMAIN filters THEN filters[field].obj ELSE <<>>
    IN  Spread(filters, One(field, ObjN(Spread(old, One(op, bound)))))

\* mutant: every status string becomes a constraint, the enumeration is not consulted
BuildOrderFilters_AnyStatus(safeQuery) ==
    LET status == Get(safeQuery, K_status)
        totalAmountFrom == Get(safeQuery, K_totalAmountFrom)
        totalAmountTo == Get(safeQuery, K_totalAmountTo)
        orderDateFrom == Get(safeQuery, K_orderDateFrom)
        orderDateTo == Get(safeQuery, K_orderDateTo)
        f0 == <<>>
        f1 == IF Truthy(status) /\ status.kind = "str"
              THEN Spread(f0, One(K_status, status)) ELSE f0
        f2 == IF Truthy(totalAmountFrom)
              THEN WithBound(f1, K_totalAmount, K_gte, NumberOf(totalAmountFrom)) ELSE f1
        f3 == IF Truthy(totalAmountTo)
              THEN WithBound(f2, K_totalAmount, K_lte, NumberOf(totalAmountTo)) ELSE f2
        f4 == IF Truthy(orderDateFrom) /\ orderDateFrom.kind = "str"
              THEN WithBound(f3, K_createdAt, K_gte, NewDate(orderDateFrom.str)) ELSE f3
        f5 == IF Truthy(orderDateTo) /\ orderDateTo.kind = "str"
              THEN WithBound(f4, K_createdAt, K_lte, NewDate(orderDateTo.str)) ELSE f4
    IN  f5

\* the Filter Builder of the admin branch: status, amount range, date range
BuildOrderFilters(safeQuery) ==
    LET status == Get(safeQuery, K_status)
        totalAmountFrom == Get(safeQuery, K_totalAmountFrom)
        totalAmountTo == Get(safeQuery, K_totalAmountTo)
        orderDateFrom == Get(safeQuery, K_orderDateFrom)
        orderDateTo == Get(safeQuery, K_orderDateTo)
        f0 == <<>>
        f1 == IF Truthy(status) /\ status.kind = "str" /\ status.str \in ValidStatuses
              THEN Spread(f0, One(K_status, status)) ELSE f0
        f2 == IF Truthy(totalAmountFrom)
              THEN WithBound(f1, K_totalAmount, K_gte, NumberOf(totalAmountFrom)) ELSE f1
        f3 == IF Truthy(totalAmountTo)
              THEN WithBound(f2, K_totalAmount, K_lte, NumberOf(totalAmountTo)) ELSE f2
        f4 == IF Truthy(orderDateFrom) /\ orderDateFrom.kind = "str"
              THEN WithBound(f3, K_createdAt, K_gte, NewDate(orderDateFrom.str)) ELSE f3
        f5 == IF Truthy(orderDateTo) /\ orderDateTo.kind = "str"
              THEN WithBound(f4, K_createdAt, K_lte, NewDate(orderDateTo.str)) ELSE f4
    IN  f5

\* $lookup products, $lookup users, $unwind customer, $unwind products: one row
\* per product of every order whose customer document exists
RECURSIVE Unwind(_, _)
Unwind(seq, customerIds) ==
    IF seq = <<>> THEN <<>>
    ELSE LET o == Head(seq)
             rows == IF o.customer \in customerIds
                     THEN [i \in 1..Len(o.products) |-> [order |-> o, product |-> o.products[i]]]
                     ELSE <<>>
         IN  rows \o Unwind(Tail(seq), customerIds)

\* $group by _id with $first of the order fields and $push of the products
RECURSIVE GroupRows(_)
GroupRows(rows) ==
    IF rows = <<>> THEN <<>>
    ELSE LET id == Head(rows).order.orderNumber
             mine == SelectSeq(rows, LAMBDA r : r.order.orderNumber = id)
             rest == SelectSeq(rows, LAMBDA r : r.order.orderNumber # id)
         IN  <<[Head(rows).order EXCEPT !.products = [i \in 1..Len(mine) |-> mine[i].product]]>>
                 \o GroupRows(rest)

\* $sort on createdAt; rows with equal keys keep their pipeline order
SortRows(rows, descending) ==
    LET indexed == [i \in 1..Len(rows) |-> [row |-> rows[i], idx |-> i]]
        before(a, b) ==
            IF a.row.order.createdAt # b.row.order.createdAt
            THEN IF descending THEN a.row.order.createdAt > b.row.order.createdAt
                 ELSE a.row.order.createdAt < b.row.order.createdAt
            ELSE a.idx < b.idx
        sorted == SortSeq(indexed, before)
    IN  [i \in 1..Len(rows) |-> sorted[i].row]

\* Order.aggregate(aggregatePipeline)
Aggregate(docs, customerIds, safeFilters, withSearch, searchRegex, searchNumber, descending, skip, limit) ==
    LET matched == SelectSeq(NaturalOrder(docs), LAMBDA o : MatchesFilters(o, safeFilters))
        unwound == Unwind(matched, customerIds)
        hit(r) == \/ RegexTest(searchRegex.toks, productTitle(r.product))
                  \/ searchNumber.kind # "nan" /\ r.order.orderNumber = searchNumber.num
        searched == IF withSearch THEN SelectSeq(unwound, hit) ELSE unwound
        sorted == SortRows(searched, descending)
    IN  IF skip < 0 \/ limit <= 0 THEN Throw("MongoServerError")
        ELSE Return(GroupRows(SubSeq(sorted, skip + 1, Min(Len(sorted), skip + limit))))

\* the admin branch of getOrders (requests of the model carry no sortField, so
\* the sort key is the default 'createdAt')
getOrdersAdmin(query, safeQuery, searchTerm, searchRegex, searchNumber, docs, customerIds) ==
    LET page == PageOf(query)
        limit == LimitOf(query)
        sortOrder == Get(safeQuery, K_sortOrder)
        filters == BuildOrderFilters(safeQuery)
        safeFilters == sanitizeAggregationFilters(ObjN(filters))
    IN  IF safeFilters.err # "none" THEN Fail(safeFilters.err, MsgInvalidRequest)
        ELSE LET found == Aggregate(docs, customerIds, safeFilters.val.obj,
                                    Truthy(searchTerm) /\ searchTerm.kind = "str",
                                    searchRegex, searchNumber,
                                    sortOrder.kind = "undef" \/ sortOrder = StrN(<<"d", "e", "s", "c">>),
                                    (page - 1) * limit, limit)
                 totalOrders == Cardinality({o \in docs : MatchesFilters(o, filters)})
                 totalPages == CeilDiv(totalOrders, limit)
             IN  IF found.err # "none" THEN Fail(found.err, "none")
                 ELSE Page(SanitizedOrders(found.val), totalOrders, totalPages, page, limit,
                           ObjN(filters))

\* GET /orders
getOrders(user, query, docs, customerIds) ==
    LET safeQuery == sanitizeQueryParams(query)
        searchTerm == Get(safeQuery.val, K_search)
        safeSearch == sanitizeSearch(searchTerm.str)
        searchRegex == RegexParse(safeSearch)
        searchNumber == NumberOf(StrN(safeSearch))
    IN  IF safeQuery.err # "none" THEN Fail(safeQuery.err, MsgInvalidRequest)
        ELSE IF searchTerm.kind # "str" THEN Fail("TypeError", "none")   \* searchTerm.replace
        ELSE IF ~searchRegex.ok THEN Fail("SyntaxError", "none")         \* new RegExp
        ELSE IF ~IsAdmin(user)
        THEN getOrdersNonAdmin(user, query, searchTerm, searchRegex, searchNumber, docs)
        ELSE getOrdersAdmin(query, safeQuery.val, searchTerm, searchRegex, searchNumber,
                            docs, customerIds)

--------------------------------------------------------------------------
(* GET /orders/me *)

\* populate('orders'): the referenced documents that exist, in array order
Populate(refs, docs) ==
    LET present == SelectSeq(refs, LAMBDA n : \E d \in docs : d.orderNumber = n)
    IN  [i \in 1..Len(present) |-> CHOOSE d \in docs : d.orderNumber = present[i]]

getOrdersCurrentUser(userId, query, docs, customerIds, refs) ==
    LET safeQuery == sanitizeQueryParams(query)
        page == PageOf(query)
        limit == LimitOf(query)
        searchTerm == Get(safeQuery.val, K_search)
        safeSearch == sanitizeSearch(searchTerm.str)
        searchRegex == RegexParse(safeSearch)
        searchNumber == NumberOf(StrN(safeSearch))
        skip == (page - 1) * limit
        populated == Populate(refs[userId], docs)
        productIds == ProductsMatching(searchRegex)
        found == IF Truthy(searchTerm) /\ searchTerm.kind = "str"
                 THEN SelectSeq(populated, LAMBDA o : MatchesSearch(o, productIds, searchNumber))
                 ELSE populated
        totalOrders == Len(found)
        totalPages == CeilDiv(totalOrders, limit)
    IN  IF safeQuery.err # "none" THEN Fail(safeQuery.err, MsgInvalidRequest)
        ELSE IF searchTerm.kind # "str" THEN Fail("TypeError", "none")
        ELSE IF ~searchRegex.ok THEN Fail("SyntaxError", "none")
        ELSE IF userId \notin customerIds THEN Fail("NotFound", MsgUserAbsent)
        ELSE Page(SanitizedOrders(Slice(found, skip, skip + limit)),
                  totalOrders, totalPages, page, limit, Undefined)

--------------------------------------------------------------------------
(* GET /customers *)

K_registrationDateFrom == <<"r", "e", "g", "i", "s", "t", "r", "a", "t", "i", "o", "n", "D", "a", "t", "e", "F", "r", "o", "m">>
K_registrationDateTo == <<"r", "e", "g", "i", "s", "t", "r", "a", "t", "i", "o", "n", "D", "a", "t", "e", "T", "o">>
K_lastOrderDateFrom == <<"l", "a", "s", "t", "O", "r", "d", "e", "r", "D", "a", "t", "e", "F", "r", "o", "m">>
K_lastOrderDateTo == <<"l", "a", "s", "t", "O", "r", "d", "e", "r", "D", "a", "t", "e", "T", "o">>
K_orderCountFrom == <<"o", "r", "d", "e", "r", "C", "o", "u", "n", "t", "F", "r", "o", "m">>
K_orderCountTo == <<"o", "r", "d", "e", "r", "C", "o", "u", "n", "t", "T", "o">>
K_lastOrderDate == <<"l", "a", "s", "t", "O", "r", "d", "e", "r", "D", "a", "t", "e">>
K_orderCount == <<"o", "r", "d", "e", "r", "C", "o", "u", "n", "t">>
K_id == <<"i", "d">>
K_orderNumber == <<"o", "r", "d", "e", "r", "N", "u", "m", "b", "e", "r">>
K_orders == <<"o", "r", "d", "e", "r", "s">>

MsgUserNotFound == "user not found"                   \* 'Пользователь не найден'
MsgInvalidUserId == "invalid user id"                 \* 'Невалидный ID пользователя'
MsgInvalidOrderNumber == "invalid order number"       \* 'Невалидный номер заказа'

\* the user documents; totalAmount, orderCount, lastOrder and lastOrderDate are
\* the denormalized aggregates of the user's orders (0 and -1 stand for null)
userName(u) == IF u = "u1" THEN <<"a">> ELSE IF u = "u2" THEN <<".">> ELSE <<"<", "b", ">", "1">>
userEmail(u) == <<"e">>
userCreatedAt(u) == IF u = "u1" THEN Noon ELSE IF u = "u2" THEN LateEvening ELSE 0
RECURSIVE SumTotals(_)
SumTotals(seq) == IF seq = <<>> THEN 0 ELSE Head(seq).totalAmount + SumTotals(Tail(seq))
UserDoc(u, docs, refs) ==
    LET own == OrdersOf(docs, u)
        last == IF own = <<>> THEN 0 ELSE own[Len(own)].orderNumber
    IN  [id |-> u, name |-> userName(u), email |-> userEmail(u), createdAt |-> userCreatedAt(u),
         totalAmount |-> SumTotals(own),
         orderCount |-> Len(own),
         lastOrder |-> last,
         lastOrderDate |-> IF own = <<>> THEN 0 - 1 ELSE own[Len(own)].createdAt,
         orders |-> refs[u]]

\* the users collection in natural order
UserSeq(customerIds, docs, refs) ==
    LET all == <<"adm", "u1", "u2">>
        present == SelectSeq(all, LAMBDA u : u \in customerIds)
    IN  [i \in 1..Len(present) |-> UserDoc(present[i], docs, refs)]

\* the range filters of the admin branch of getCustomers
BuildUserFilters(safeQuery) ==
    LET registrationDateFrom == Get(safeQuery, K_registrationDateFrom)
        registrationDateTo == Get(safeQuery, K_registrationDateTo)
        lastOrderDateFrom == Get(safeQuery, K_lastOrderDateFrom)
        lastOrderDateTo == Get(safeQuery, K_lastOrderDateTo)
        totalAmountFrom == Get(safeQuery, K_totalAmountFrom)
        totalAmountTo == Get(safeQuery, K_totalAmountTo)
        orderCountFrom == Get(safeQuery, K_orderCountFrom)
        orderCountTo == Get(safeQuery, K_orderCountTo)
        f0 == <<>>
        f1 == IF Truthy(registrationDateFrom)
              THEN WithBound(f0, K_createdAt, K_gte, NewDate(registrationDateFrom.str)) ELSE f0
        f2 == IF Truthy(registrationDateTo)
              THEN WithBound(f1, K_createdAt, K_lte, SetEndOfDay(NewDate(registrationDateTo.str)))
              ELSE f1
        f3 == IF Truthy(lastOrderDateFrom)
              THEN WithBound(f2, K_lastOrderDate, K_gte, NewDate(lastOrderDateFrom.str)) ELSE f2
        f4 == IF Truthy(lastOrderDateTo)
              THEN WithBound(f3, K_lastOrderDate, K_lte, SetEndOfDay(NewDate(lastOrderDateTo.str)))
              ELSE f3
        f5 == IF Truthy(totalAmountFrom)
              THEN WithBound(f4, K_totalAmount, K_gte, NumberOf(totalAmountFrom)) ELSE f4
        f6 == IF Truthy(totalAmountTo)
              THEN WithBound(f5, K_totalAmount, K_lte, NumberOf(totalAmountTo)) ELSE f5
        f7 == IF Truthy(orderCountFrom)
              THEN WithBound(f6, K_orderCount, K_gte, NumberOf(orderCountFrom)) ELSE f6
        f8 == IF Truthy(orderCountTo)
              THEN WithBound(f7, K_orderCount, K_lte, NumberOf(orderCountTo)) ELSE f7
    IN  f8

MatchesUserFilters(u, filters) ==
    /\ K_createdAt \in DOMAIN filters => SatisfiesRange(u.createdAt, filters[K_createdAt])
    /\ K_lastOrderDate \in DOMAIN filters =>
          u.lastOrderDate >= 0 /\ SatisfiesRange(u.lastOrderDate, filters[K_lastOrderDate])
    /\ K_totalAmount \in DOMAIN filters => SatisfiesRange(u.totalAmount, filters[K_totalAmount])
    /\ K_orderCount \in DOMAIN filters => SatisfiesRange(u.orderCount, filters[K_orderCount])

\* sort { createdAt: -1 } (or 1); users with equal keys keep their natural order
SortUsers(seq, descending) ==
    LET indexed == [i \in 1..Len(seq) |-> [doc |-> seq[i], idx |-> i]]
        before(a, b) ==
            IF a.doc.createdAt # b.doc.createdAt
            THEN IF descending THEN a.doc.createdAt > b.doc.createdAt
                 ELSE a.doc.createdAt < b.doc.createdAt
            ELSE a.idx < b.idx
        sorted == SortSeq(indexed, before)
    IN  [i \in 1..Len(seq) |-> sorted[i].doc]

\* the admin branch of getCustomers (every search parameter of the model's
\* requests is a string)
getCustomersAdmin(query, docs, customerIds, refs) ==
    LET safeQuery == sanitizeQueryParams(query)
        sortOrder == Get(safeQuery.val, K_sortOrder)
        search == Get(safeQuery.val, K_search)
        page == PageOf(query)
        limit == LimitOf(query)
        filters == BuildUserFilters(safeQuery.val)
        searchRegex == RegexParse(search.str)
        orderIds == {o.orderNumber : o \in {d \in docs : RegexTest(searchRegex.toks, d.deliveryAddress)}}
        matches(u) ==
            /\ MatchesUserFilters(u, filters)
            /\ Truthy(search) =>
                  RegexTest(searchRegex.toks, u.name) \/ u.lastOrder \in orderIds
        matching == SelectSeq(UserSeq(customerIds, docs, refs), matches)
        sorted == SortUsers(matching,
                            sortOrder.kind = "undef" \/ sortOrder = StrN(<<"d", "e", "s", "c">>))
        users == FindSkipLimit(sorted, (page - 1) * limit, limit)
        totalUsers == Len(matching)
        totalPages == CeilDiv(totalUsers, limit)
    IN  IF safeQuery.err # "none" THEN Fail(safeQuery.err, MsgInvalidRequest)
        ELSE IF Truthy(search) /\ ~searchRegex.ok THEN Fail("SyntaxError", "none")
        ELSE IF users.err # "none" THEN Fail(users.err, "none")
        ELSE Page(users.val, totalUsers, totalPages, page, limit, ObjN(filters))

\* mutant: the requester's role is not looked at, the filter pipeline serves
\* every requester
getCustomers_Ungated(user, query, docs, customerIds, refs) ==
    getCustomersAdmin(query, docs, customerIds, refs)

\* GET /customers
getCustomers(user, query, docs, customerIds, refs) ==
    IF ~IsAdmin(user)
    THEN IF user \notin customerIds THEN Fail("NotFound", MsgUserNotFound)
         ELSE Outcome("ok", "none", "none", <<UserDoc(user, docs, refs)>>,
                      [total |-> 1, totalPages |-> 1, currentPage |-> 1, pageSize |-> 1],
                      0, Undefined)
    ELSE getCustomersAdmin(query, docs, customerIds, refs)

--------------------------------------------------------------------------
(* GET /customers/:id, PATCH /customers/:id, DELETE /customers/:id *)

\* An ObjectId is written as a one-symbol string: the id of a user is its
\* name, the _id of an order is the digit of its orderNumber.
IdStr(u) == <<u>>
ValidObjectIds == {IdStr(u) : u \in AllUsers \cup {"u9"}} \cup {<<c>> : c \in Digits}

\* Types.ObjectId.isValid(id)
IsValidObjectId(v) == v.kind = "str" /\ v.str \in ValidObjectIds

getCustomerById(userLocal, params, docs, customerIds, refs) ==
    LET safe == sanitizeQueryParams(params)
        id == Get(safe.val, K_id)
    IN  IF safe.err # "none" THEN Fail(safe.err, MsgInvalidRequest)
        ELSE IF ~IsValidObjectId(id) THEN Fail("NotFound", MsgInvalidUserId)
        ELSE IF ~IsAdmin(userLocal) /\ IdStr(userLocal) # id.str THEN Fail("NotFound", MsgUserNotFound)
        ELSE IF \A u \in customerIds : IdStr(u) # params[K_id].str THEN Fail("NotFound", MsgUserNotFound)
        ELSE Json(UserDoc(CHOOSE u \in customerIds : IdStr(u) = params[K_id].str, docs, refs))

\* the array a value is cast to for the `orders` path of the user schema: a
\* string that is an order's _id becomes a one-element array
CastOrderRefs(v) ==
    IF v.kind = "str" /\ Len(v.str) = 1 /\ v.str[1] \in Digits
    THEN Return(<<DigitVal(v.str[1])>>)
    ELSE Throw("CastError")

\* PATCH /customers/:id that writes the update before it looks for the user
updateCustomer_WriteFirst(params, body, docs, customerIds, refs) ==
    LET safe == sanitizeQueryParams(params)
        id == Get(safe.val, K_id)
        safeParams == sanitizeQueryParams(body)
        newRefs == CastOrderRefs(Get(safeParams.val, K_orders))
        target == CHOOSE u \in AllUsers \cup {"u9"} : IdStr(u) = id.str
        refs2 == IF K_orders \in DOMAIN safeParams.val /\ target \in DOMAIN refs
                 THEN [refs EXCEPT ![target] = newRefs.val] ELSE refs
    IN  IF safe.err # "none" THEN [out |-> Fail(safe.err, MsgInvalidRequest), refs |-> refs]
        ELSE IF ~IsValidObjectId(id) THEN [out |-> Fail("NotFound", MsgInvalidUserId), refs |-> refs]
        ELSE IF safeParams.err # "none"
        THEN [out |-> Fail(safeParams.err, MsgInvalidRequest), refs |-> refs]
        ELSE IF K_orders \in DOMAIN safeParams.val /\ newRefs.err # "none"
        THEN [out |-> Fail(newRefs.err, "none"), refs |-> refs]
        ELSE IF target \notin customerIds THEN [out |-> Fail("NotFound", MsgUserAbsent), refs |-> refs2]
        ELSE [out |-> Json(UserDoc(target, docs, refs2)), refs |-> refs2]

\* PATCH /customers/:id: the whole sanitized body is the update
updateCustomer(params, body, docs, customerIds, refs) ==
    LET safe == sanitizeQueryParams(params)
        id == Get(safe.val, K_id)
        safeParams == sanitizeQueryParams(body)
        newRefs == CastOrderRefs(Get(safeParams.val, K_orders))
        target == CHOOSE u \in AllUsers \cup {"u9"} : IdStr(u) = id.str
        refs2 == IF K_orders \in DOMAIN safeParams.val
                 THEN [refs EXCEPT ![target] = newRefs.val] ELSE refs
    IN  IF safe.err # "none" THEN [out |-> Fail(safe.err, MsgInvalidRequest), refs |-> refs]
        ELSE IF ~IsValidObjectId(id) THEN [out |-> Fail("NotFound", MsgInvalidUserId), refs |-> refs]
        ELSE IF safeParams.err # "none"
        THEN [out |-> Fail(safeParams.err, MsgInvalidRequest), refs |-> refs]
        ELSE IF K_orders \in DOMAIN safeParams.val /\ newRefs.err # "none"
        THEN [out |-> Fail(newRefs.err, "none"), refs |-> refs]
        ELSE IF target \notin customerIds THEN [out |-> Fail("NotFound", MsgUserAbsent), refs |-> refs]
        ELSE [out |-> Json(UserDoc(target, docs, refs2)), refs |-> refs2]

\* DELETE /customers/:id
deleteCustomer(params, docs, customerIds, refs) ==
    LET safe == sanitizeQueryParams(params)
        id == Get(safe.val, K_id)
        target == CHOOSE u \in AllUsers \cup {"u9"} : IdStr(u) = id.str
    IN  IF safe.err # "none" THEN [out |-> Fail(safe.err, MsgInvalidRequest), customers |-> customerIds]
        ELSE IF ~IsValidObjectId(id)
        THEN [out |-> Fail("NotFound", MsgInvalidUserId), customers |-> customerIds]
        ELSE IF target \notin customerIds
        THEN [out |-> Fail("NotFound", MsgUserAbsent), customers |-> customerIds]
        ELSE [out |-> Json(UserDoc(target, docs, refs)), customers |-> customerIds \ {target}]

--------------------------------------------------------------------------
(* customerRouter: the routes of /customers in the order they are registered *)

MsgForbidden == "forbidden"

PathMe == <<"m", "e">>

CustomerRoutes ==
    << [method |-> "GET", path |-> "/", guarded |-> TRUE, handler |-> "getCustomers"],
       [method |-> "GET", path |-> "/:id", guarded |-> TRUE, handler |-> "getCustomerById"],
       [method |-> "PATCH", path |-> "/:id", guarded |-> TRUE, handler |-> "updateCustomer"],
       [method |-> "DELETE", path |-> "/:id", guarded |-> TRUE, handler |-> "deleteCustomer"],
       [method |-> "GET", path |-> "/me", guarded |-> FALSE, handler |-> "getCustomerById"],
       [method |-> "PATCH", path |-> "/me", guarded |-> FALSE, handler |-> "updateCustomer"] >>

\* a route takes a request of its method whose path its pattern matches:
\* '/:id' matches any one segment, '/me' the segment me, '/' the empty path
RouteMatches(route, method, segment) ==
    /\ route.method = method
    /\ CASE route.path = "/" -> segment = <<>>
         [] route.path = "/:id" -> segment # <<>>
         [] OTHER -> segment = PathMe

\* the first registered route that takes the request, 0 when none does
FirstRoute(method, segment) ==
    LET taking == {i \in 1..Len(CustomerRoutes) : RouteMatches(CustomerRoutes[i], method, segment)}
    IN  IF taking = {} THEN 0 ELSE CHOOSE i \in taking : \A j \in taking : i <= j

\* req.params of the route: '/:id' binds id to the segment
RouteParams(route, segment) == IF route.path = "/:id" THEN One(K_id, StrN(segment)) ELSE <<>>

\* roleGuardMiddleware(Role.Admin): a requester without the role is refused
roleGuardMiddleware(user) == IF IsAdmin(user) THEN "next" ELSE "Forbidden"

\* what the router does with a request to /customers/<segment>: the guard of
\* the first matching route, then its handler
customerRouter(method, segment, user, body, docs, customerIds, refs) ==
    LET route == CustomerRoutes[FirstRoute(method, segment)]
        params == RouteParams(route, segment)
    IN  IF route.guarded /\ roleGuardMiddleware(user) # "next"
        THEN [out |-> Fail("Forbidden", MsgForbidden), refs |-> refs]
        ELSE IF route.handler = "updateCustomer"
        THEN updateCustomer(params, body, docs, customerIds, refs)
        ELSE [out |-> getCustomerById(user, params, docs, customerIds, refs), refs |-> refs]

--------------------------------------------------------------------------
(* GET /orders/:orderNumber and GET /orders/me/:orderNumber *)

\* findOne({ orderNumber }).populate(['customer', 'products']).orFail(...)
FindOrder(n, docs) ==
    IF \E d \in docs : d.orderNumber = n
    THEN Return(CHOOSE d \in docs : d.orderNumber = n)
    ELSE Throw("NotFound")

getOrderByNumber(params, docs) ==
    LET orderNumber == NumberOf(Get(params, K_orderNumber))
        order == FindOrder(orderNumber.num, docs)
    IN  IF orderNumber.kind = "nan" THEN Fail("BadRequest", MsgInvalidOrderNumber)
        ELSE IF order.err # "none" THEN Fail("NotFound", MsgOrderAbsent)
        ELSE Json(sanitizeOrder(order.val))

getOrderCurrentUserByNumber(userId, params, docs, customerIds) ==
    LET orderNumber == NumberOf(Get(params, K_orderNumber))
        order == FindOrder(orderNumber.num, docs)
    IN  IF orderNumber.kind = "nan" THEN Fail("BadRequest", MsgInvalidOrderNumber)
        ELSE IF order.err # "none" THEN Fail("NotFound", MsgOrderAbsent)
        \* order.customer is null when the owner's document is gone: reading
        \* order.customer._id throws
        ELSE IF order.val.customer \notin customerIds THEN Fail("TypeError", "none")
        ELSE IF order.val.customer # userId THEN Fail("NotFound", MsgOrderAbsent)
        ELSE Json(sanitizeOrder(order.val))

--------------------------------------------------------------------------
(* POST /orders *)

MsgNoItems == "no items given for the order"          \* 'Не указаны товары для заказа'
MsgInvalidItemIds == "invalid item ids"                \* 'Невалидные ID товаров'
MsgProductAbsent == "no product with the id"          \* 'Товар с id ... не найден'
MsgProductNotSold == "product is not for sale"        \* 'Товар с id ... не продается'
MsgWrongTotal == "wrong order total"                  \* 'Неверная сумма заказа'

\* the products collection: the products sold and one whose price is null
NullPriceProducts == {"p0"}
Catalogue == ProductIds \cup NullPriceProducts
\* price: null, written as a number no price is
NullPrice == 0 - 1
\* Product.find({}): the price of every product document
InitialPrices == [p \in Catalogue |-> IF p \in NullPriceProducts THEN NullPrice ELSE productPrice(p)]
\* the well-formed ids an item can be: those of the products and one of no product
ValidItemIds == {IdStr(p) : p \in Catalogue \cup {"p9"}}
ProductOf(id) == CHOOSE p \in Catalogue : IdStr(p) = id

\* [a, b].map(id => product).reduce((a, c) => a + c.price, 0)
RECURSIVE PriceSum(_, _)
PriceSum(ids, products) ==
    IF ids = <<>> THEN 0 ELSE products[ProductOf(Head(ids))] + PriceSum(Tail(ids), products)

\* the document new Order({...}) saves; the store hands out the number
NewOrderDoc(number, userId, data, validItems, now) ==
    [orderNumber |-> number, customer |-> userId,
     products |-> [i \in 1..Len(validItems) |-> ProductOf(validItems[i])],
     totalAmount |-> NumberOf(data["total"]).num, status |-> "new", createdAt |-> now,
     deliveryAddress |-> data["address"].str, comment |-> data["comment"].str,
     email |-> data["email"].str, phone |-> data["phone"].str]

OrderProps == {"address", "payment", "phone", "total", "email", "items", "comment"}

\* for (let prop in req.body) cleanOrderData[prop] = cleanHtml(req.body[prop])
CleanOrderData(body) ==
    [prop \in OrderProps |->
        IF prop \in DOMAIN body THEN StrN(cleanHtmlValue(body[prop]).val) ELSE Undefined]

Rejected(error, message) == [out |-> Fail(error, message), saved |-> {}]

\* const populateOrder = await newOrder.populate(...); await populateOrder.save()
SaveOrder(newOrder) == [out |-> Json(sanitizeOrder(newOrder)), saved |-> {newOrder}]

\* the checks of the items without the comparison of the total
CheckBasket_AnyTotal(userId, data, validItems, number, products) ==
    IF \E i \in 1..Len(validItems) : validItems[i] \notin {IdStr(p) : p \in DOMAIN products}
    THEN Rejected("BadRequest", MsgProductAbsent)
    ELSE IF \E i \in 1..Len(validItems) : products[ProductOf(validItems[i])] = NullPrice
    THEN Rejected("BadRequest", MsgProductNotSold)
    ELSE SaveOrder(NewOrderDoc(number, userId, data, validItems, Noon))

\* the checks of the items that are well-formed ids, and of the total
CheckBasket(userId, data, validItems, number, products) ==
    IF \E i \in 1..Len(validItems) : validItems[i] \notin {IdStr(p) : p \in DOMAIN products}
    THEN Rejected("BadRequest", MsgProductAbsent)
    ELSE IF \E i \in 1..Len(validItems) : products[ProductOf(validItems[i])] = NullPrice
    THEN Rejected("BadRequest", MsgProductNotSold)
    ELSE IF data["total"] # NumN(PriceSum(validItems, products))  \* totalBasket !== total
    THEN Rejected("BadRequest", MsgWrongTotal)
    ELSE SaveOrder(NewOrderDoc(number, userId, data, validItems, Noon))

\* the checks of items, the cleaned body at hand
CheckItems(userId, data, number, products) ==
    IF data["items"].kind # "arr" \/ data["items"].obj = <<>>     \* !Array.isArray(items) || ...
    THEN Rejected("BadRequest", MsgNoItems)
    \* items.filter(id => Types.ObjectId.isValid(id)).length !== items.length
    ELSE IF \E i \in 1..Len(data["items"].obj) : data["items"].obj[i] \notin ValidObjectIds \cup ValidItemIds
    THEN Rejected("BadRequest", MsgInvalidItemIds)
    ELSE CheckBasket(userId, data, data["items"].obj, number, products)

\* POST /orders: the outcome and the documents saved; products is what
\* Product.find({}) returned when the handler started
createOrder(userId, body, number, products) ==
    IF \E prop \in DOMAIN body : cleanHtmlValue(body[prop]).err # "none"
    THEN Rejected("TypeError", "none")                           \* catch: next(error)
    ELSE CheckItems(userId, CleanOrderData(body), number, products)

--------------------------------------------------------------------------
(* POST /orders as the second copy of the controller has it: the text      *)
(* fields are trimmed and cleaned one by one, items and total are left     *)
(* as they were sent                                                        *)

\* String.prototype.trim()
RECURSIVE TrimStart(_)
TrimStart(s) == IF s # <<>> /\ Head(s) = " " THEN TrimStart(Tail(s)) ELSE s
RECURSIVE TrimEnd(_)
TrimEnd(s) == IF s # <<>> /\ s[Len(s)] = " " THEN TrimEnd(SubSeq(s, 1, Len(s) - 1)) ELSE s
Trim(s) == TrimEnd(TrimStart(s))

TrimmedProps == {"address", "phone", "email"}

\* cleanHtml(address.trim()) and the like; comment ? cleanHtml(comment.trim()) : ''
TrimmedOrderData(body) ==
    [prop \in OrderProps |->
        IF prop \in TrimmedProps \/ (prop = "comment" /\ Truthy(Get(body, prop)))
        THEN StrN(cleanHtmlValue(StrN(Trim(body[prop].str))).val)
        ELSE IF prop = "comment" THEN StrN(<<>>)
        ELSE Get(body, prop)]

\* x.trim() throws for a value that is no string
createOrderSecondCopy(userId, body, number, products) ==
    IF \/ \E prop \in TrimmedProps : Get(body, prop).kind # "str"
       \/ Truthy(Get(body, "comment")) /\ Get(body, "comment").kind # "str"
    THEN Rejected("TypeError", "none")
    ELSE CheckItems(userId, TrimmedOrderData(body), number, products)

--------------------------------------------------------------------------
(* PATCH /orders/:orderNumber and DELETE /orders/:id *)

MsgInvalidStatus == "invalid order status"            \* 'Невалидный статус заказа'
MsgInvalidOrderId == "invalid order id"               \* 'Невалидный ID заказа'

Unwritten(out, docs) == [out |-> out, orders |-> docs]

\* findOneAndUpdate({ orderNumber }, { status }, { new: true })
UpdatedOrder(order, status, docs) ==
    LET updatedOrder == [order EXCEPT !.status = StatusName(status)]
    IN  [out |-> Json(sanitizeOrder(updatedOrder)), orders |-> (docs \ {order}) \cup {updatedOrder}]

updateOrder_AnyStatus(params, body, docs) ==
    LET orderNumber == NumberOf(Get(params, K_orderNumber))
        status == Get(body, K_status)
        order == FindOrder(orderNumber.num, docs)
    IN  IF orderNumber.kind = "nan" THEN Unwritten(Fail("BadRequest", MsgInvalidOrderNumber), docs)
        ELSE IF order.err # "none" THEN Unwritten(Fail("NotFound", MsgOrderAbsent), docs)
        ELSE UpdatedOrder(order.val, status.str, docs)

updateOrder(params, body, docs) ==
    LET orderNumber == NumberOf(Get(params, K_orderNumber))
        status == Get(body, K_status)
        order == FindOrder(orderNumber.num, docs)
    IN  IF orderNumber.kind = "nan" THEN Unwritten(Fail("BadRequest", MsgInvalidOrderNumber), docs)
        \* !validStatuses.includes(status)
        ELSE IF ~(status.kind = "str" /\ status.str \in ValidStatuses)
        THEN Unwritten(Fail("BadRequest", MsgInvalidStatus), docs)
        ELSE IF order.err # "none" THEN Unwritten(Fail("NotFound", MsgOrderAbsent), docs)
        ELSE UpdatedOrder(order.val, status.str, docs)

\* findByIdAndDelete(id): the _id of an order is the digit of its number
deleteOrder(params, docs) ==
    LET id == Get(params, K_id)
        byId == {d \in docs : NumToStr(d.orderNumber) = id.str}
    IN  IF ~IsValidObjectId(id) THEN Unwritten(Fail("BadRequest", MsgInvalidOrderId), docs)
        ELSE IF byId = {} THEN Unwritten(Fail("NotFound", MsgOrderAbsent), docs)
        ELSE [out |-> Json(sanitizeOrder(CHOOSE d \in byId : TRUE)), orders |-> docs \ byId]

--------------------------------------------------------------------------
(* The sort option of the two list handlers, built from the sortField and  *)
(* sortOrder of the sanitized query                                         *)

K_sortField == <<"s", "o", "r", "t", "F", "i", "e", "l", "d">>

\* const { sortField = 'createdAt' } = safeQuery: the default stands in for
\* undefined only
SortFieldOf(safeQuery) == IF Get(safeQuery, K_sortField).kind = "undef" THEN StrN(K_createdAt) ELSE safeQuery[K_sortField]

SortOrderOf(safeQuery) == IF Get(safeQuery, K_sortOrder).kind = "undef" THEN StrN(<<"d", "e", "s", "c">>) ELSE safeQuery[K_sortOrder]

\* getOrders: sort[cleanHtml(sortField)] = ...; the value is the key of the
\* sort option, undefined when the option stays empty
OrdersSortKey(safeQuery) ==
    LET sortField == SortFieldOf(safeQuery)
        sortOrder == SortOrderOf(safeQuery)
        safeSortField == cleanHtmlValue(sortField)
    IN  IF ~(Truthy(sortField) /\ Truthy(sortOrder)) THEN Return(Undefined)
        ELSE IF safeSortField.err # "none" THEN Throw(safeSortField.err)
        ELSE Return(StrN(safeSortField.val))

\* getCustomers: sort[sortField] = ...
CustomersSortKey(safeQuery) ==
    LET sortField == SortFieldOf(safeQuery)
        sortOrder == SortOrderOf(safeQuery)
    IN  IF ~(Truthy(sortField) /\ Truthy(sortOrder)) THEN Return(Undefined)
        ELSE Return(sortField)

SortKeyOf(fn, query) ==
    LET safeQuery == sanitizeQueryParams(query)
    IN  IF safeQuery.err # "none" THEN Throw(safeQuery.err)
        ELSE IF fn = "getOrders" THEN OrdersSortKey(safeQuery.val)
        ELSE CustomersSortKey(safeQuery.val)

\* a list request whose query is ?sortField=<the input text>
CallSortKey ==
    /\ output.fn = "none"
    /\ input.kind = "str"
    /\ \E fn \in {"getOrders", "getCustomers"} :
          LET r == SortKeyOf(fn, One(K_sortField, input))
          IN  output' = [fn |-> fn, err |-> r.err, val |-> r.val]
    /\ UNCHANGED <<htmlParser, input, customers, orderRefs, orders, nextNumber, resp, prices, pending>>

--------------------------------------------------------------------------
(* The requests of the model *)

Str1(c) == StrN(<<c>>)
MinusOne == StrN(<<"-", "1">>)
Eleven == StrN(<<"1", "1">>)

SearchParts == {<<>>} \cup {One(K_search, StrN(s)) : s \in {<<>>, <<"a">>, <<"1">>, <<".">>}}

PagingParts ==
    { <<>>, One(K_limit, MinusOne), One(K_limit, Eleven),
      Spread(One(K_page, Str1("2")), One(K_limit, Str1("1"))) }

FilterParts ==
    { One(K_totalAmountFrom, Str1("2")), One(K_totalAmountTo, Str1("2")),
      One(K_orderDateFrom, StrN(DateOnly(1))), One(K_orderDateTo, StrN(DateOnly(1))),
      One(K_status, StrN(<<"n", "e", "w">>)), One(K_status, Str1("a")),
      One(K_status, StrN(<<"$", "a">>)) }

\* a search the Input Sanitizer rejects, and one that is no well-formed pattern
OddSearches == {One(K_search, StrN(<<"$", "a">>)), One(K_search, Str1("("))}

OrderQueries ==
    {Spread(a, b) : a \in SearchParts, b \in PagingParts \cup FilterParts} \cup OddSearches

MyOrderQueries == {Spread(a, b) : a \in SearchParts, b \in PagingParts} \cup OddSearches

CustomerQueries ==
    PagingParts \cup OddSearches
        \cup { One(K_search, Str1("a")), One(K_registrationDateTo, StrN(DateOnly(1))),
               One(K_registrationDateFrom, StrN(DateOnly(1))), One(K_totalAmountFrom, Str1("2")),
               One(K_orderCountTo, Str1("1")), One(K_lastOrderDateTo, StrN(DateOnly(1))) }

\* the bodies of POST /orders: a well-formed one (two products sold, the
\* total their sum, markup in address and comment) and its variations
MarkedAddress == ScriptThenText
MarkedComment == <<"<", "b", ">", "c">>
OrderBody(items, total) ==
    [address |-> StrN(MarkedAddress), payment |-> StrN(<<"c", "a", "r", "d">>), phone |-> Str1("7"),
     email |-> Str1("e"), comment |-> StrN(MarkedComment), items |-> items, total |-> total]
TwoItems == ArrN(<<IdStr("p1"), IdStr("p2")>>)
WithoutItems(body) == [prop \in (DOMAIN body) \ {"items"} |-> body[prop]]
OrderBodies ==
    { OrderBody(TwoItems, NumN(3)), OrderBody(TwoItems, NumN(4)), OrderBody(TwoItems, Str1("3")),
      OrderBody(ArrN(<<>>), NumN(0)), OrderBody(Str1("p1"), NumN(1)),
      OrderBody(ArrN(<<IdStr("p1"), <<"z", "z">>>>), NumN(1)),
      OrderBody(ArrN(<<IdStr("p1"), IdStr("p9")>>), NumN(1)),
      OrderBody(ArrN(<<IdStr("p1"), IdStr("p0")>>), NumN(1)),
      WithoutItems(OrderBody(TwoItems, NumN(3))) }

OrderNumberParams == {One(K_orderNumber, StrN(s)) : s \in {<<"1">>, <<"2">>, <<"9">>, <<"a">>}}

UserIdParams == {One(K_id, StrN(s)) : s \in {IdStr("u1"), IdStr("u2"), IdStr("u9"), <<"m", "e">>}}

CustomerBodies == {<<>>, One(K_orders, Str1("1")), One(K_orders, Str1("a"))}

\* the requests of the interleavings: order 1 and no order, a status of the
\* enumeration, one outside it and none
RaceOrderParams == {One(K_orderNumber, StrN(s)) : s \in {<<"1">>, <<"9">>, <<"a">>}}
RaceOrderIds == {One(K_id, StrN(s)) : s \in {<<"1">>, <<"9">>, <<"z", "z">>}}
StatusBodies ==
    { One(K_status, StrN(<<"c", "o", "m", "p", "l", "e", "t", "e", "d">>)),
      One(K_status, StrN(<<"d", "o", "n", "e">>)), <<>> }
RaceBodies == {OrderBody(TwoItems, NumN(3)), OrderBody(TwoItems, NumN(4))}
RacePrices == {1, 2}
CreateHandlers == {"createOrder", "createOrderSecondCopy"}
\* the listings that run an item query and then a separate count query
ListRequests ==
    {[user |-> u, req |-> One(K_search, StrN(<<>>))] : u \in {"u1", "adm"}}

--------------------------------------------------------------------------
(* The state machine *)

NoResp == [handler |-> "none", kind |-> "none", user |-> "none", req |-> <<>>, body |-> <<>>,
           out |-> Outcome("none", "none", "none", <<>>, NoPagination, 0, Undefined)]

\* no request is between two store calls
NoPending == [handler |-> "none", user |-> "none", req |-> <<>>, body |-> <<>>,
              products |-> <<>>, found |-> <<>>]

\* a handler that reads the store serves a request and answers
Served(handler, user, req, out) ==
    /\ resp' = [handler |-> handler, kind |-> "read", user |-> user, req |-> req,
                body |-> <<>>, out |-> out]
    /\ UNCHANGED <<htmlParser, input, output, customers, orderRefs, orders, nextNumber, prices, pending>>

\* requests are served one after the other
Idle == resp.kind = "none"

\* the response has gone out; the server takes the next request
NextRequest ==
    /\ resp.kind # "none"
    /\ resp' = NoResp
    /\ UNCHANGED <<htmlParser, input, output, customers, orderRefs, orders, nextNumber, prices, pending>>

StoreInit ==
    /\ customers = AllUsers
    /\ orders \in OrderStores
    /\ orderRefs = [u \in AllUsers |->
                       LET own == OrdersOf(orders, u)
                       IN  [i \in 1..Len(own) |-> own[i].orderNumber]]
    /\ nextNumber = MaxOrders + 1
    /\ resp = NoResp
    /\ prices = InitialPrices
    /\ pending = NoPending

GetOrders ==
    /\ Idle
    /\ \E user \in AllUsers, query \in OrderQueries :
          Served("getOrders", user, query, getOrders(user, query, orders, customers))

GetOrdersCurrentUser ==
    /\ Idle
    /\ \E user \in AllUsers, query \in MyOrderQueries :
          Served("getOrdersCurrentUser", user, query,
                 getOrdersCurrentUser(user, query, orders, customers, orderRefs))

GetCustomers ==
    /\ Idle
    /\ \E user \in AllUsers, query \in CustomerQueries :
          Served("getCustomers", user, query,
                 getCustomers(user, query, orders, customers, orderRefs))

GetCustomerById ==
    /\ Idle
    /\ \E user \in AllUsers, params \in UserIdParams :
          Served("getCustomerById", user, params,
                 getCustomerById(user, params, orders, customers, orderRefs))

\* the router hands GET /orders/:orderNumber to administrators only
GetOrderByNumber ==
    /\ Idle
    /\ \E user \in {u \in AllUsers : IsAdmin(u)}, params \in OrderNumberParams :
          Served("getOrderByNumber", user, params, getOrderByNumber(params, orders))

GetOrderCurrentUserByNumber ==
    /\ Idle
    /\ \E user \in AllUsers, params \in OrderNumberParams :
          Served("getOrderCurrentUserByNumber", user, params,
                 getOrderCurrentUserByNumber(user, params, orders, customers))

\* the router hands PATCH and DELETE /customers/:id to administrators only
UpdateCustomer ==
    /\ Idle
    /\ \E user \in {u \in AllUsers : IsAdmin(u)}, params \in UserIdParams, body \in CustomerBodies :
          LET r == updateCustomer(params, body, orders, customers, orderRefs)
          IN  /\ orderRefs' = r.refs
              /\ resp' = [handler |-> "updateCustomer", kind |-> "write", user |-> user,
                          req |-> params, body |-> body, out |-> r.out]
    /\ UNCHANGED <<htmlParser, input, output, customers, orders, nextNumber, prices, pending>>

DeleteCustomer ==
    /\ Idle
    /\ \E user \in {u \in AllUsers : IsAdmin(u)}, params \in UserIdParams :
          LET r == deleteCustomer(params, orders, customers, orderRefs)
          IN  /\ customers' = r.customers
              /\ resp' = [handler |-> "deleteCustomer", kind |-> "write", user |-> user,
                          req |-> params, body |-> <<>>, out |-> r.out]
    /\ UNCHANGED <<htmlParser, input, output, orderRefs, orders, nextNumber, prices, pending>>

\* GET /customers/me and PATCH /customers/me, through the router
CustomerMe ==
    /\ Idle
    /\ \E user \in AllUsers, method \in {"GET", "PATCH"}, body \in CustomerBodies :
          /\ method = "GET" => body = <<>>
          /\ LET r == customerRouter(method, PathMe, user, body, orders, customers, orderRefs)
             IN  /\ orderRefs' = r.refs
                 /\ resp' = [handler |-> "customerRouter",
                             kind |-> IF method = "GET" THEN "read" ELSE "write",
                             user |-> user, req |-> One(K_id, StrN(PathMe)), body |-> body,
                             out |-> r.out]
    /\ UNCHANGED <<htmlParser, input, output, customers, orders, nextNumber, prices, pending>>

CreateOrder ==
    /\ Idle
    /\ nextNumber <= MaxOrders + 1
    /\ \E user \in AllUsers, body \in OrderBodies :
          LET r == createOrder(user, body, nextNumber, prices)
          IN  /\ orders' = orders \cup r.saved
              /\ nextNumber' = nextNumber + Cardinality(r.saved)
              /\ resp' = [handler |-> "createOrder", kind |-> "write", user |-> user,
                          req |-> <<>>, body |-> body, out |-> r.out]
    /\ UNCHANGED <<htmlParser, input, output, customers, orderRefs, prices, pending>>

--------------------------------------------------------------------------
(* The handlers step by step: a request rests at each awaited store call,  *)
(* and the store calls of other requests run in between (SpecRace)         *)

\* a request answers; nothing of it is left between store calls
Answered(handler, kind, user, req, body, out) ==
    /\ resp' = [handler |-> handler, kind |-> kind, user |-> user, req |-> req,
                body |-> body, out |-> out]
    /\ pending' = NoPending

\* createOrder up to `const products = await Product.find({})`
CreateOrderRead ==
    /\ Idle
    /\ pending = NoPending
    /\ nextNumber <= MaxOrders + 1
    /\ \E handler \in CreateHandlers, body \in RaceBodies :
          pending' = [NoPending EXCEPT !.handler = handler, !.user = "u1", !.body = body,
                                       !.products = prices]
    /\ UNCHANGED <<htmlParser, input, output, customers, orderRefs, orders, nextNumber, resp, prices>>

\* createOrder from the products it has read to the save and the response
CreateOrderSave ==
    /\ Idle
    /\ pending.handler \in CreateHandlers
    /\ LET r == IF pending.handler = "createOrder"
                THEN createOrder(pending.user, pending.body, nextNumber, pending.products)
                ELSE createOrderSecondCopy(pending.user, pending.body, nextNumber, pending.products)
       IN  /\ orders' = orders \cup r.saved
           /\ nextNumber' = nextNumber + Cardinality(r.saved)
           /\ Answered(pending.handler, "write", pending.user, <<>>, pending.body, r.out)
    /\ UNCHANGED <<htmlParser, input, output, customers, orderRefs, prices>>

\* the products controller changes the price of a product
UpdateProduct ==
    /\ Idle
    /\ \E p \in ProductIds, price \in RacePrices :
          /\ prices' = [prices EXCEPT ![p] = price]
          /\ resp' = [NoResp EXCEPT !.handler = "updateProduct", !.kind = "write", !.user = "adm",
                                     !.out = Outcome("ok", "none", "none", <<>>, NoPagination, 0, Undefined)]
    /\ UNCHANGED <<htmlParser, input, output, customers, orderRefs, orders, nextNumber, pending>>

UpdateOrder ==
    /\ Idle
    /\ \E params \in RaceOrderParams, body \in StatusBodies :
          LET r == updateOrder(params, body, orders)
          IN  /\ orders' = r.orders
              /\ resp' = [handler |-> "updateOrder", kind |-> "write", user |-> "adm",
                          req |-> params, body |-> body, out |-> r.out]
    /\ UNCHANGED <<htmlParser, input, output, customers, orderRefs, nextNumber, prices, pending>>

DeleteOrder ==
    /\ Idle
    /\ \E params \in RaceOrderIds :
          LET r == deleteOrder(params, orders)
          IN  /\ orders' = r.orders
              /\ resp' = [handler |-> "deleteOrder", kind |-> "write", user |-> "adm",
                          req |-> params, body |-> <<>>, out |-> r.out]
    /\ UNCHANGED <<htmlParser, input, output, customers, orderRefs, nextNumber, prices, pending>>

\* getOrders up to its item query: Order.find(...).skip().limit() of the
\* non-admin branch, Order.aggregate(...) of the admin branch
ListOrdersFind ==
    /\ Idle
    /\ pending = NoPending
    /\ \E request \in ListRequests :
          LET found == getOrders(request.user, request.req, orders, customers)
          IN  IF found.status = "ok"
              THEN /\ pending' = [NoPending EXCEPT !.handler = "getOrders", !.user = request.user,
                                                   !.req = request.req, !.found = found]
                   /\ UNCHANGED resp
              ELSE Answered("getOrders", "read", request.user, request.req, <<>>, found)
    /\ UNCHANGED <<htmlParser, input, output, customers, orderRefs, orders, nextNumber, prices>>

\* getOrders from Order.countDocuments(...) to the response: the items are
\* those of the item query, the totals those of the count
ListOrdersCount ==
    /\ Idle
    /\ pending.handler = "getOrders"
    /\ LET counted == getOrders(pending.user, pending.req, orders, customers)
       IN  Answered("getOrders", "read", pending.user, pending.req, <<>>,
                    [pending.found EXCEPT !.pagination = counted.pagination])
    /\ UNCHANGED <<htmlParser, input, output, customers, orderRefs, orders, nextNumber, prices>>

Init ==
    /\ htmlParser \in ParserBuilds
    /\ input = Undefined
    /\ output = NoOutput
    /\ StoreInit

Next ==
    \/ GetOrders
    \/ GetOrdersCurrentUser
    \/ GetCustomers
    \/ GetCustomerById
    \/ GetOrderByNumber
    \/ GetOrderCurrentUserByNumber
    \/ UpdateCustomer
    \/ DeleteCustomer
    \/ CustomerMe
    \/ CreateOrder
    \/ NextRequest

Spec == Init /\ [][Next]_vars

\* the sanitizers alone, applied to every bounded input
InitSan ==
    /\ htmlParser = "concat"
    /\ input \in SanInputs
    /\ output = NoOutput
    /\ customers = AllUsers
    /\ orders = {}
    /\ orderRefs = [u \in AllUsers |-> <<>>]
    /\ nextNumber = 1
    /\ resp = NoResp
    /\ prices = InitialPrices
    /\ pending = NoPending

NextSan ==
    \/ CallSanitizeSearch
    \/ CallSanitizeQueryParams
    \/ CallSanitizeAggregationFilters

SpecSan == InitSan /\ [][NextSan]_vars

\* the markup and output sanitizers alone, under either build of the parser
InitHtml ==
    /\ htmlParser \in ParserBuilds
    /\ input \in HtmlInputs
    /\ output = NoOutput
    /\ customers = AllUsers
    /\ orders = {}
    /\ orderRefs = [u \in AllUsers |-> <<>>]
    /\ nextNumber = 1
    /\ resp = NoResp
    /\ prices = InitialPrices
    /\ pending = NoPending

NextHtml ==
    \/ CallCleanHtml
    \/ CallSanitizeOrder
    \/ CallSanitizeUser
    \/ CallSortKey

SpecHtml == InitHtml /\ [][NextHtml]_vars

\* the order requests step by step over a store of one order per number
RaceStore == {OrderDoc(n, "u1", <<"p1", "p2">>, Noon) : n \in 1..MaxOrders}

InitRace ==
    /\ htmlParser \in ParserBuilds
    /\ input = Undefined
    /\ output = NoOutput
    /\ customers = AllUsers
    /\ orders = RaceStore
    /\ orderRefs = [u \in AllUsers |-> IF u = "u1" THEN [n \in 1..MaxOrders |-> n] ELSE <<>>]
    /\ nextNumber = MaxOrders + 1
    /\ resp = NoResp
    /\ prices = InitialPrices
    /\ pending = NoPending

NextRace ==
    \/ CreateOrderRead
    \/ CreateOrderSave
    \/ UpdateProduct
    \/ UpdateOrder
    \/ DeleteOrder
    \/ ListOrdersFind
    \/ ListOrdersCount
    \/ NextRequest

SpecRace == InitRace /\ [][NextRace]_vars

--------------------------------------------------------------------------
(* Claims about the sanitizers (SpecSan) *)

\* a key or a string value that begins with '$', at any depth of the mapping
RECURSIVE HasSentinel(_)
HasSentinel(m) ==
    \E key \in DOMAIN m :
        \/ StartsWithSentinel(key)
        \/ m[key].kind = "str" /\ StartsWithSentinel(m[key].str)
        \/ m[key].kind = "obj" /\ HasSentinel(m[key].obj)

\* C1: sanitizeQueryParams fails with BadRequest whenever a key or a string
\* value of the mapping begins with '$' at any depth, and never returns a
\* mapping that still holds a '$'-prefixed key or value.
C1_SentinelRejected ==
    output.fn = "sanitizeQueryParams" =>
        /\ HasSentinel(input.obj) => output.err = "BadRequest"
        /\ output.err = "none" => ~HasSentinel(output.val.obj)

\* an $expr or $function directive at any depth of the mapping
RECURSIVE HasDirective(_)
HasDirective(m) ==
    \E key \in DOMAIN m :
        \/ key \in {KeyExpr, KeyFunction}
        \/ m[key].kind = "obj" /\ HasDirective(m[key].obj)

\* C2: sanitizeAggregationFilters fails with BadRequest exactly when the filter
\* expression holds, at some depth, a key beginning with '$', a string value
\* beginning with '$', or an $expr / $function directive; otherwise it returns
\* without error.
C2_AggregationRejects ==
    (output.fn = "sanitizeAggregationFilters" /\ input.kind = "obj") =>
        /\ output.err \in {"none", "BadRequest"}
        /\ output.err = "BadRequest" <=> (HasSentinel(input.obj) \/ HasDirective(input.obj))

\* C2 witness: a rejected expression whose only offending key or value lies
\* below the top level
C2_Witness ==
    /\ output.fn = "sanitizeAggregationFilters"
    /\ input.kind = "obj"
    /\ output.err = "BadRequest"
    /\ \A key \in DOMAIN input.obj :
          /\ ~StartsWithSentinel(key)
          /\ input.obj[key].kind = "str" => ~StartsWithSentinel(input.obj[key].str)
    /\ \E key \in DOMAIN input.obj :
          input.obj[key].kind = "obj" /\ HasSentinel(input.obj[key].obj)

\* the pattern is well formed, every token of it is a literal character, and
\* the literals spell the text
MatchesLiterally(pattern, text) ==
    LET r == RegexParse(pattern)
    IN  /\ r.ok
        /\ Len(r.toks) = Len(text)
        /\ \A i \in 1..Len(r.toks) : r.toks[i].kind = "lit" /\ r.toks[i].c = text[i]

\* C4: for a string that does not begin with '$', the value the Input Sanitizer
\* returns is a well-formed pattern in which every metacharacter is escaped, so
\* that it matches exactly the literal input text.
C4_RegexSafe ==
    /\ (output.fn = "sanitizeSearch" /\ ~StartsWithSentinel(input.str)) =>
          MatchesLiterally(output.val.str, input.str)
    /\ (output.fn = "sanitizeQueryParams" /\ output.err = "none") =>
          \A key \in DOMAIN input.obj :
              input.obj[key].kind = "str" =>
                  MatchesLiterally(output.val.obj[key].str, input.obj[key].str)

--------------------------------------------------------------------------
(* Claims about the handlers (Spec) *)

\* the search of a request is present and is a word without metacharacters
PlainSearch(req) ==
    K_search \in DOMAIN req /\ req[K_search].str \in {<<>>, <<"a">>, <<"1">>}

RangeKeys == {K_totalAmountFrom, K_totalAmountTo, K_orderDateFrom, K_orderDateTo}

\* the bounds a request asks for, applied to an order
WithinRequestedRange(order, req) ==
    /\ K_totalAmountFrom \in DOMAIN req => order.totalAmount >= NumberOf(req[K_totalAmountFrom]).num
    /\ K_totalAmountTo \in DOMAIN req => order.totalAmount <= NumberOf(req[K_totalAmountTo]).num
    /\ K_orderDateFrom \in DOMAIN req => order.createdAt >= NewDate(req[K_orderDateFrom].str).num
    /\ K_orderDateTo \in DOMAIN req =>
          order.createdAt <= SetEndOfDay(NewDate(req[K_orderDateTo].str)).num

\* C3: an administrator's order listing that carries a valid totalAmountFrom,
\* totalAmountTo, orderDateFrom or orderDateTo parameter is never rejected: it
\* ends with a success response whose orders all lie within the bounds.
C3_RangeFilterAccepted ==
    (/\ resp.handler = "getOrders"
     /\ IsAdmin(resp.user)
     /\ PlainSearch(resp.req)
     /\ DOMAIN resp.req \cap RangeKeys # {}) =>
        /\ resp.out.error # "BadRequest"
        /\ resp.out.status = "ok"
        /\ \A i \in 1..Len(resp.out.docs) : WithinRequestedRange(resp.out.docs[i], resp.req)

ListHandlers == {"getCustomers", "getOrders", "getOrdersCurrentUser"}

\* C5: on every list endpoint the page size reported for a request, whatever
\* limit the client supplied, is an integer between 1 and 10.
C5_LimitClamped ==
    (resp.handler \in ListHandlers /\ resp.out.status = "ok") =>
        resp.out.pagination.pageSize \in 1..MaxLimit

\* the orders that match every constraint of an order listing: the scope of
\* the requester, the filters, and the search predicate
MatchingOrders(handler, user, req) ==
    LET safeQuery == sanitizeQueryParams(req).val
        searchTerm == Get(safeQuery, K_search)
        safeSearch == sanitizeSearch(searchTerm.str)
        productIds == ProductsMatching(RegexParse(safeSearch))
        scope == IF handler = "getOrdersCurrentUser"
                 THEN {o \in orders : \E i \in 1..Len(orderRefs[user]) : orderRefs[user][i] = o.orderNumber}
                 ELSE IF IsAdmin(user) THEN {o \in orders : o.customer \in customers}
                 ELSE {o \in orders : o.customer = user}
        filters == IF handler = "getOrders" /\ IsAdmin(user) THEN BuildOrderFilters(safeQuery) ELSE <<>>
    IN  {o \in scope :
            /\ MatchesFilters(o, filters)
            /\ Truthy(searchTerm) => MatchesSearch(o, productIds, NumberOf(StrN(safeSearch)))}

\* C6: on the order listings, the admin listing with a search term included,
\* the reported totalPages is ceil(N / pageSize), N being the number of orders
\* that match all constraints, the search predicate among them.
C6_TotalPages ==
    (/\ resp.handler \in {"getOrders", "getOrdersCurrentUser"}
     /\ resp.out.status = "ok"
     /\ resp.out.pagination.pageSize >= 1) =>
        resp.out.pagination.totalPages =
            CeilDiv(Cardinality(MatchingOrders(resp.handler, resp.user, resp.req)),
                    resp.out.pagination.pageSize)

\* C7: on the order listing with orderDateTo = D, the upper bound applied to
\* createdAt is the end of day D (23:59:59.999), and an order created at
\* 23:59:59.500 of day D is part of the result.
C7_EndOfDayIncluded ==
    (/\ resp.handler = "getOrders"
     /\ IsAdmin(resp.user)
     /\ resp.req = Spread(One(K_search, StrN(<<>>)), One(K_orderDateTo, StrN(DateOnly(1))))) =>
        /\ BuildOrderFilters(sanitizeQueryParams(resp.req).val)[K_createdAt].obj[K_lte]
              = SetEndOfDay(NewDate(DateOnly(1)))
        /\ \A o \in orders :
              (o.createdAt = LateEvening /\ o.customer \in customers) =>
                  /\ resp.out.status = "ok"
                  /\ \E i \in 1..Len(resp.out.docs) :
                        resp.out.docs[i].orderNumber = o.orderNumber

\* C8: a non-admin who fetches by number an order that another user owns gets
\* NotFound, with the error kind and message of a fetch of a number that no
\* order has: never the order, never Forbidden.
C8_ForeignLikeMissing ==
    (/\ resp.handler = "getOrderCurrentUserByNumber"
     /\ ~IsAdmin(resp.user)
     /\ \E o \in orders :
           /\ o.orderNumber = NumberOf(resp.req[K_orderNumber]).num
           /\ o.customer # resp.user) =>
        /\ resp.out.error = "NotFound"
        /\ resp.out = getOrderCurrentUserByNumber(resp.user, One(K_orderNumber, Str1("9")),
                                                  orders, customers)

C10_OwnOrdersOnly ==
    (/\ resp.handler \in {"getOrders", "getOrdersCurrentUser"}
     /\ ~IsAdmin(resp.user)
     /\ resp.out.status = "ok") =>
        \A i \in 1..Len(resp.out.docs) : resp.out.docs[i].customer = resp.user

\* the filters a request supplies, applied to an order: status equality for a
\* status of the enumeration, and the requested bounds
SatisfiesSupplied(order, req) ==
    /\ (K_status \in DOMAIN req /\ req[K_status].str \in ValidStatuses) =>
          order.status = StatusName(req[K_status].str)
    /\ WithinRequestedRange(order, req)

\* C11: the status, totalAmountFrom/To and orderDateFrom/To filters of a
\* non-admin requester are applied within the requester's own orders: every
\* order of the response satisfies every supplied filter.
C11_FiltersWithinScope ==
    (/\ resp.handler = "getOrders"
     /\ ~IsAdmin(resp.user)
     /\ resp.out.status = "ok") =>
        \A i \in 1..Len(resp.out.docs) : SatisfiesSupplied(resp.out.docs[i], resp.req)

\* a request without one of its parameters
Without(req, key) == [k \in DOMAIN req \ {key} |-> req[k]]

\* the admin listing answers a request with a status outside the enumeration
\* as it answers the same request without the status
C12_IgnoredStatus ==
    /\ K_status \notin DOMAIN BuildOrderFilters(sanitizeQueryParams(resp.req).val)
    /\ resp.out = getOrders(resp.user, Without(resp.req, K_status), orders, customers)

Contains(text, t) ==
    \E i \in 1..(Len(text) - Len(t) + 1) : SubSeq(text, i, i + Len(t) - 1) = t

\* the Search Correlator's contract for a raw term t: (a) a product title
\* contains t literally, or (b) t parses as the order's number
LiteralMatch(order, t) ==
    \/ \E i \in 1..Len(order.products) : Contains(productTitle(order.products[i]), t)
    \/ LET n == NumberOf(StrN(t)) IN n.kind # "nan" /\ n.num = order.orderNumber

\* the orders a requester is entitled to see on a listing
ScopeOf(handler, user) ==
    IF handler = "getOrdersCurrentUser"
    THEN {o \in orders : \E i \in 1..Len(orderRefs[user]) : orderRefs[user][i] = o.orderNumber}
    ELSE IF IsAdmin(user) THEN {o \in orders : o.customer \in customers}
    ELSE {o \in orders : o.customer = user}

\* C13: for every raw search term t (metacharacters included) and every order
\* in the requester's scope, a listing that carries only the search returns
\* the order iff a product title contains t literally or t parses as the
\* order's number; no error is raised.
C13_LiteralSearch ==
    (/\ resp.handler \in {"getOrders", "getOrdersCurrentUser"}
     /\ resp.user \in customers
     /\ DOMAIN resp.req = {K_search}
     /\ resp.req[K_search].str # <<>>
     /\ ~StartsWithSentinel(resp.req[K_search].str)) =>
        /\ resp.out.status = "ok"
        /\ {resp.out.docs[i].orderNumber : i \in 1..Len(resp.out.docs)}
              = {o.orderNumber : o \in {d \in ScopeOf(resp.handler, resp.user) :
                                           LiteralMatch(d, resp.req[K_search].str)}}

\* the order identifiers of a response
IdsOf(out) == {out.docs[i].orderNumber : i \in 1..Len(out.docs)}

\* C14: for the same orders, products and customers and the same search term,
\* page and limit, the admin-path aggregation search and the non-admin
\* in-memory search return the same set of order identifiers. (The store is
\* one where the requester's scope is the whole collection.)
C14_SearchEquivalence ==
    (/\ resp.handler = "getOrders"
     /\ ~IsAdmin(resp.user)
     /\ resp.user \in customers
     /\ \A o \in orders : o.customer = resp.user
     /\ K_search \in DOMAIN resp.req
     /\ resp.req[K_search].str # <<>>
     /\ DOMAIN resp.req \subseteq {K_search, K_page, K_limit}
     /\ resp.out.status = "ok"
     /\ resp.out.pagination.pageSize >= 1) =>
        LET admin == CHOOSE u \in AllUsers : IsAdmin(u)
            viaPipeline == getOrders(admin, resp.req, orders, customers)
        IN  /\ viaPipeline.status = "ok"
            /\ IdsOf(viaPipeline) = IdsOf(resp.out)

\* the ordered matching records that the in-memory paths paginate
InMemoryMatches(handler, user, req) ==
    LET searchTerm == Get(sanitizeQueryParams(req).val, K_search)
        safeSearch == sanitizeSearch(searchTerm.str)
        productIds == ProductsMatching(RegexParse(safeSearch))
        all == IF handler = "getOrdersCurrentUser" THEN Populate(orderRefs[user], orders)
               ELSE OrdersOf(orders, user)
    IN  IF Truthy(searchTerm)
        THEN SelectSeq(all, LAMBDA o : MatchesSearch(o, productIds, NumberOf(StrN(safeSearch))))
        ELSE all

\* the request is answered by an in-memory slice
SlicedInMemory ==
    \/ resp.handler = "getOrdersCurrentUser"
    \/ /\ resp.handler = "getOrders"
       /\ ~IsAdmin(resp.user)
       /\ K_search \in DOMAIN resp.req
       /\ resp.req[K_search].str # <<>>

\* C15: for the same ordered matching records and the same client-supplied
\* page and limit, the in-memory slice((page-1)*limit, page*limit) selects
\* exactly the records that skip((page-1)*limit).limit(limit) selects.
C15_SliceAsSkipLimit ==
    (SlicedInMemory /\ resp.out.status = "ok") =>
        LET page == PageOf(resp.req)
            limit == LimitOf(resp.req)
            viaStore == FindSkipLimit(InMemoryMatches(resp.handler, resp.user, resp.req),
                                      (page - 1) * limit, limit)
        IN  /\ viaStore.err = "none"
            /\ resp.out.docs = SanitizedOrders(viaStore.val)

--------------------------------------------------------------------------
(* Claims about the markup and output sanitizers (SpecHtml) *)

UserTextFields == {"name", "email", "phone"}

\* the record `after` is `before` with each of the text fields replaced by
\* the cleaned text of the same field ('' for a field `before` lacks)
CleanedFieldwise(before, after, textFields) ==
    /\ DOMAIN after = (DOMAIN before) \cup textFields
    /\ \A field \in textFields :
          after[field] = (IF field \in DOMAIN before THEN cleanHtml(before[field]) ELSE <<>>)
    /\ \A field \in (DOMAIN before) \ textFields : after[field] = before[field]

\* C16: in the result of the Output Sanitizer (sanitizeOrder, sanitizeUser)
\* each markup-bearing field (deliveryAddress, comment, email, phone, name)
\* equals the Markup Sanitizer applied to that same field of the input, or
\* '' when the field is absent or null, and every other field is unchanged.
C16_OutputSanitizer ==
    /\ output.fn = "sanitizeOrder" => CleanedFieldwise(input.obj, output.val.obj, OrderTextFields)
    /\ output.fn = "sanitizeUser" => CleanedFieldwise(input.obj, output.val.obj, UserTextFields)

\* the positions of the opening anchor tags of a cleaned text
AnchorsOf(text) ==
    {i \in 1..Len(text) : HasRunAt(text, <<"<", "a", ">">>, i) \/ HasRunAt(text, <<"<", "a", " ">>, i)}

\* the opening tag that starts at position i of a cleaned text, up to its >
OpeningTagAt(text, i) == SubSeq(text, i, OrEnd(IndexFrom(text, ">", i), text) - 1)

RelAttribute == <<" ", "r", "e", "l", "=", "\"">> \o RelValue \o <<"\"">>

\* C21: for every input string, every anchor element of the output of
\* cleanHtml carries rel = 'noopener noreferrer nofollow': the rel that the
\* tag transform adds is still there after the attribute allow-list.
C21_AnchorsCarryRel ==
    (output.fn = "cleanHtml" /\ input.kind = "str") =>
        \A i \in AnchorsOf(output.val.str) :
            IndexOfRun(OpeningTagAt(output.val.str, i), RelAttribute, 1) > 0

\* C27: in both list handlers the key of the sort option is the sortField of
\* the sanitized query with its markup stripped by cleanHtml
C27_SortKeyStripped ==
    (output.fn \in {"getOrders", "getCustomers"} /\ output.err = "none" /\ output.val.kind = "str")
        => LET safeQuery == sanitizeQueryParams(One(K_sortField, input))
           IN  output.val.str = cleanHtmlValue(safeQuery.val[K_sortField]).val

--------------------------------------------------------------------------
(* Claims about the responses (Spec) *)

CustomerHandlers == {"getCustomers", "getCustomerById", "updateCustomer", "deleteCustomer"}
OrderHandlers ==
    {"getOrders", "getOrdersCurrentUser", "getOrderByNumber", "getOrderCurrentUserByNumber",
     "createOrder"}

\* C17: every endpoint that returns a customer or order record in a success
\* response passes each returned record through the Output Sanitizer: every
\* record of a success response is what the Output Sanitizer returns for it,
\* and no markup the sanitizer strips is left in a markup-bearing field.
C17_ResponsesSanitized ==
    (resp.handler \in CustomerHandlers \cup OrderHandlers /\ resp.out.status = "ok") =>
        \A i \in 1..Len(resp.out.docs) :
            LET record == resp.out.docs[i]
            IN  IF resp.handler \in CustomerHandlers
                THEN record = sanitizeUser(record)
                ELSE record = sanitizeOrder(record)

\* the items of a body are a non-empty array of well-formed ids of products
\* that exist and have a price
SellableItems(body) ==
    /\ "items" \in DOMAIN body
    /\ body["items"].kind = "arr"
    /\ body["items"].obj # <<>>
    /\ \A i \in 1..Len(body["items"].obj) :
          body["items"].obj[i] \in {IdStr(p) : p \in Catalogue \ NullPriceProducts}

\* the submitted total is the sum of the prices of the items
ExactTotal(body) == "total" \in DOMAIN body /\ body["total"] = NumN(PriceSum(body["items"].obj, prices))

\* a step in which createOrder answers the request `body`
CreateOrderStep(body) ==
    /\ resp.kind = "none"
    /\ resp'.handler = "createOrder"
    /\ resp'.body = body

\* C18: createOrder rejects with BadRequest, and saves no order, whenever
\* items is not a non-empty array, an item id is not well-formed, an item
\* references a product that does not exist or whose price is null, or the
\* submitted total is not exactly the sum of the prices of the products.
C18_InvalidOrderRejected ==
    [][\A body \in OrderBodies :
          (CreateOrderStep(body) /\ ~(SellableItems(body) /\ ExactTotal(body))) =>
              /\ resp'.out.status = "error"
              /\ resp'.out.error = "BadRequest"
              /\ orders' = orders]_vars

\* C19: for a request whose items are two valid ids of existing products with
\* prices and whose numeric total is the sum of those prices, createOrder
\* succeeds, saves an order, and returns a record whose comment and
\* deliveryAddress are the markup-stripped comment and address submitted.
C19_ValidOrderCreated ==
    [][\A body \in OrderBodies :
          (CreateOrderStep(body) /\ SellableItems(body) /\ ExactTotal(body)
              /\ Len(body["items"].obj) = 2) =>
              /\ resp'.out.status = "ok"
              /\ orders' # orders
              /\ Len(resp'.out.docs) = 1
              /\ resp'.out.docs[1]["comment"] = cleanHtml(body["comment"].str)
              /\ resp'.out.docs[1]["deliveryAddress"] = cleanHtml(body["address"].str)]_vars

\* C22: an order listing (all orders, my orders) that carries no search
\* parameter, of an administrator or of another requester, ends with a
\* success response: the absent parameter adds no constraint and no failure.
C22_AbsentSearchServed ==
    (/\ resp.handler \in {"getOrders", "getOrdersCurrentUser"}
     /\ K_search \notin DOMAIN resp.req
     /\ resp.user \in customers) =>
        /\ resp.out.status = "ok"
        /\ resp.out.error = "none"

\* C23: a non-admin requester can fetch and update their own customer
\* record: GET or PATCH /customers/me by a non-admin reaches getCustomerById
\* or updateCustomer for the requester's own identity and yields that record;
\* it is not taken by the admin-guarded '/:id' route nor resolved with the
\* literal id 'me'.
C23_SelfAccess ==
    (/\ resp.handler = "customerRouter"
     /\ ~IsAdmin(resp.user)
     /\ resp.user \in customers) =>
        /\ resp.out.status = "ok"
        /\ Len(resp.out.docs) = 1
        /\ resp.out.docs[1].id = resp.user

\* the collections of the store
StoreVars == <<customers, orderRefs, orders, nextNumber, prices>>

\* the step is a handler answering a request
HandlerAnswers == resp.kind = "none" /\ resp'.kind # "none"

\* C26: in every handler each request ends in exactly one outcome, one
\* success response or one error passed to the error boundary, never both
\* and never neither; once a failure is raised no later step of the request
\* runs: a request that ends in an error has written nothing to the store.
C26_FailureHalts ==
    [][HandlerAnswers =>
          \/ /\ resp'.out.status = "ok"
             /\ resp'.out.error = "none"
          \/ /\ resp'.out.status = "error"
             /\ resp'.out.error # "none"
             /\ resp'.out.docs = <<>>
             /\ StoreVars' = StoreVars]_vars

\* after a customer has been deleted, a request that writes has been refused
\* by a validation
C26_Witness ==
    /\ customers # AllUsers
    /\ resp.kind = "write"
    /\ resp.out.status = "error"
    /\ resp.out.error \in {"BadRequest", "NotFound", "CastError", "TypeError"}

\* C28: a served list-orders or list-my-orders response holds at most
\* pageSize orders and at most 10, whatever page and limit the client sent
C28_PageSizeBound ==
    (resp.handler \in {"getOrders", "getOrdersCurrentUser"} /\ resp.out.status = "ok") =>
        /\ Len(resp.out.docs) <= resp.out.pagination.pageSize
        /\ Len(resp.out.docs) <= MaxLimit

\* the page p of the listing the response is a page of: the same request with
\* page = p, served from the same store
ListingPage(p) == getOrders(resp.user, Spread(resp.req, One(K_page, StrN(NumToStr(p)))), orders, customers).docs

\* the places <<page, index>> of the listing where the order o is returned
PlacesOf(o, pages) == {pi \in UNION {{<<p, i>> : i \in 1..Len(pages[p])} : p \in DOMAIN pages} : pages[pi[1]][pi[2]].orderNumber = o.orderNumber}

\* C29: the pages 1..totalPages of an admin order listing hold every order
\* counted in totalOrders exactly once, each with its complete product list
C29_PagesPartition ==
    (resp.handler = "getOrders" /\ IsAdmin(resp.user) /\ resp.out.status = "ok") =>
        LET pages == [p \in 1..resp.out.pagination.totalPages |-> ListingPage(p)]
        IN  \A o \in orders :
                MatchesFilters(o, resp.out.filters.obj) =>
                    /\ Cardinality(PlacesOf(o, pages)) = 1
                    /\ \A pi \in PlacesOf(o, pages) : pages[pi[1]][pi[2]].products = o.products

--------------------------------------------------------------------------
(* Claims about the order requests step by step (SpecRace) *)

StatusNames == {"new", "delivering", "completed", "cancelled"}

\* the body of an updateOrder request names a status of the enumeration
NamesStatus(body) == K_status \in DOMAIN body /\ body[K_status].str \in ValidStatuses

SumOfPrices(order, products) ==
    PriceSum([i \in 1..Len(order.products) |-> IdStr(order.products[i])], products)

\* the step is createOrder answering (either copy of the controller)
CreateOrderAnswers == resp'.handler \in CreateHandlers

\* C25: for every order saved by createOrder, totalAmount equals the sum of
\* the prices of its products as they are in the store at the moment the
\* order is saved, also when a product-price update is interleaved between
\* createOrder's product read and its order save.
C25_TotalAtSave ==
    [][CreateOrderAnswers =>
          \A o \in orders' \ orders : o.totalAmount = SumOfPrices(o, prices')]_vars

\* C25 amended: for every order saved by createOrder, totalAmount equals the
\* sum of the prices of its products as createOrder read them when it
\* started (Product.find), whatever the prices are when the order is saved.
C25_TotalAsRead ==
    [][CreateOrderAnswers =>
          \A o \in orders' \ orders : o.totalAmount = SumOfPrices(o, pending.products)]_vars

\* createOrder has saved an order whose total is not the sum of the prices
\* the store has now: a price was changed between the read and the save
C25_Witness ==
    /\ resp.handler \in CreateHandlers
    /\ resp.out.status = "ok"
    /\ \E o \in orders :
          /\ o.orderNumber > MaxOrders
          /\ o.totalAmount # SumOfPrices(o, prices)

\* C30: a served list response holds at most as many items as the total it
\* reports, also when another request writes between the item query and the
\* count query
C30_ItemsWithinTotal ==
    (resp.handler = "getOrders" /\ resp.out.status = "ok") =>
        Len(resp.out.docs) <= resp.out.pagination.total

====
